---- MODULE Spec2Model ----
(***************************************************************************)
(* Model of the training control loop of nerfstudio/engine/trainer.py and  *)
(* of the checkpoint restore path of nerfstudio/pipelines/base_pipeline.py *)
(* as run by the main process (local_rank 0).                              *)
(*                                                                         *)
(* The trainer thread is a sequential program whose position is pc; the    *)
(* viewer is a second thread that takes the train lock to render and that  *)
(* pauses and resumes training.  External collaborators (model, data       *)
(* manager, optimizers, GradScaler, telemetry writer) are modelled by the  *)
(* effect of the calls the trainer makes on them.                          *)
(***************************************************************************)
EXTENDS Integers, Sequences, FiniteSets, TLC

\* ------------------------------------------------------------------ bounds
MaxIters == 2
MaxAccum == 2
MaxPriorStep == 1
MaxScaleLevel == 2
GrowthInterval == 2
\* the period of the diagnostic (step % 1000 == 0), scaled down so that a run
\* has a second due step
DiagnosticPeriod == 2
\* the width of the zero-padded step in a checkpoint file name
NameWidth == 9

VARIABLES
    config,          \* TrainerConfig, fixed at construction
    pc,              \* position of the trainer thread
    ret,             \* where save_checkpoint returns to
    step,            \* the loop variable of Trainer.train
    iter,            \* number of loop iterations begun
    start_step,      \* Trainer._start_step
    training_state,  \* Trainer.training_state
    train_lock,      \* holder of Trainer.train_lock
    viewer,          \* position of the viewer's render thread
    accum,           \* sub-steps done in the current train_iteration
    scale,           \* local variable scale of train_iteration
    pipeline,        \* [mode, model, datamanager, fetched]
    grads,           \* the gradient buffer: the sub-step losses accumulated
    optimizers,      \* [optimizers, schedulers]: per-group step counters
    grad_scaler,     \* [level, growth_tracker, found_inf]
    checkpoint_dir,  \* file name -> [complete, state]
    loaded,          \* <<the checkpoint state _load_checkpoint read>>, or <<>>
    calls,           \* steps train_iteration was called with
    events,          \* what the current iteration did, in order
    sched_entry,     \* the schedulers at the entry of train_iteration
    finish,          \* what Trainer.train did after the loop, in order
    saves,           \* the steps of the save_checkpoint calls that returned
    writer,          \* the timing events put to the telemetry writer, in order
    console,         \* how the trainer handled the viewer's calls, in order
    callbacks,       \* Trainer.callbacks
    plane_t,         \* local variable t of train: the plane's reference value
    reports          \* what the diagnostic's invocations reported, in order

vars == <<config, pc, ret, step, iter, start_step, training_state, train_lock,
          viewer, accum, scale, pipeline, grads, optimizers, grad_scaler,
          checkpoint_dir, loaded, calls, events, sched_entry, finish, saves,
          writer, console, callbacks, plane_t, reports>>

\* ----------------------------------------------------------- configuration
Groups == {"fields", "proposal_networks"}

\* The parameter names of the model, by its own naming: a plain model, a
\* model whose parameters all live in an attribute called module, and one
\* that has such an attribute beside others.
ModelKeySets ==
    [plain  |-> {<<"field", "w">>},
     nested |-> {<<"module", "w">>},
     mixed  |-> {<<"field", "w">>, <<"module", "w">>}]

\* what the trainer is configured to do
TrainSpace ==
    [max_num_iterations          : 0..MaxIters,
     gradient_accumulation_steps : (-1)..MaxAccum,
     steps_per_save              : 1..2,
     save_only_latest_checkpoint : BOOLEAN,
     quit_on_train_completion    : BOOLEAN,
     viewer_enabled              : BOOLEAN,
     use_grad_scaler             : BOOLEAN,
     load_scheduler              : BOOLEAN,
     load_dir                    : BOOLEAN,
     prior_step                  : (-1)..MaxPriorStep,
     model_keys                  : DOMAIN ModelKeySets,
     world_size                  : 1..2]

\* what it is configured to load.  load_dir is the checkpoint directory, and
\* load_checkpoint and load_step name a checkpoint in it by its step; -1
\* stands for None.  prior_step and prior_older are the steps of the
\* checkpoints earlier runs left there; they were written by a model named as
\* prior_model_keys says, with or without a schedulers entry.
LoadSpace ==
    [load_step                   : (-1)..MaxPriorStep,
     load_checkpoint             : (-1)..MaxPriorStep,
     prior_older                 : SUBSET (0..(MaxPriorStep - 1)),
     prior_model_keys            : DOMAIN ModelKeySets,
     prior_has_schedulers        : BOOLEAN,
     pipeline_class              : {"Pipeline", "VanillaPipeline"}]

\* what it is configured to evaluate: whether the data manager has an
\* evaluation dataset, whether a telemetry backend is enabled, and the periods
\* of the three evaluations
EvalSpace ==
    [eval_dataset                : BOOLEAN,
     logging_enabled             : BOOLEAN,
     steps_per_eval_batch        : 1..2,
     steps_per_eval_image        : 1..2,
     steps_per_eval_all_images   : 1..2]

\* the oriented boxes of the data manager: an origin and the three edge
\* vectors
Boxes ==
    [unit    |-> [origin |-> <<0, 0, 0>>,
                  x |-> <<1, 0, 0>>, y |-> <<0, 1, 0>>, z |-> <<0, 0, 1>>],
     raised  |-> [origin |-> <<0, 0, 2>>,
                  x |-> <<2, 0, 0>>, y |-> <<0, 2, 0>>, z |-> <<0, 0, 1>>],
     turned  |-> [origin |-> <<1, 0, -1>>,
                  x |-> <<1, 1, 0>>, y |-> <<-1, 1, 0>>, z |-> <<0, 0, 2>>],
     tilted  |-> [origin |-> <<0, 0, 0>>,
                  x |-> <<2, 0, 1>>, y |-> <<0, 2, 0>>, z |-> <<-1, 0, 2>>]]

PlaneCoefs == (-1)..1

\* the periods a configuration can ask the diagnostic to run on: the default
\* and another
DiagnosticPeriods == DiagnosticPeriod..(DiagnosticPeriod + 1)

\* what the diagnostic is given: whether the data manager has a
\* surface-detection ray bundle, the number of its expanded cameras, the
\* scene the rays see (the slopes and the height of the surface), the box,
\* and the period the configuration asks for
SurfaceSpace ==
    [ray_bundle_surface_detection : BOOLEAN,
     diagnostic_period            : DiagnosticPeriods,
     num_image                    : 1..2,
     plane_a                      : PlaneCoefs,
     plane_b                      : PlaneCoefs,
     plane_d                      : (-2)..1,
     box                          : DOMAIN Boxes]

\* the configuration made of the four
Config(t, l, e, d) ==
    [max_num_iterations          |-> t.max_num_iterations,
     gradient_accumulation_steps |-> t.gradient_accumulation_steps,
     steps_per_save              |-> t.steps_per_save,
     save_only_latest_checkpoint |-> t.save_only_latest_checkpoint,
     quit_on_train_completion    |-> t.quit_on_train_completion,
     viewer_enabled              |-> t.viewer_enabled,
     use_grad_scaler             |-> t.use_grad_scaler,
     load_scheduler              |-> t.load_scheduler,
     load_dir                    |-> t.load_dir,
     prior_step                  |-> t.prior_step,
     model_keys                  |-> t.model_keys,
     world_size                  |-> t.world_size,
     load_step                   |-> l.load_step,
     load_checkpoint             |-> l.load_checkpoint,
     prior_older                 |-> l.prior_older,
     prior_model_keys            |-> l.prior_model_keys,
     prior_has_schedulers        |-> l.prior_has_schedulers,
     pipeline_class              |-> l.pipeline_class,
     eval_dataset                |-> e.eval_dataset,
     logging_enabled             |-> e.logging_enabled,
     steps_per_eval_batch        |-> e.steps_per_eval_batch,
     steps_per_eval_image        |-> e.steps_per_eval_image,
     steps_per_eval_all_images   |-> e.steps_per_eval_all_images,
     ray_bundle_surface_detection |-> d.ray_bundle_surface_detection,
     diagnostic_period           |-> d.diagnostic_period,
     num_image                   |-> d.num_image,
     plane_a                     |-> d.plane_a,
     plane_b                     |-> d.plane_b,
     plane_d                     |-> d.plane_d,
     box                         |-> d.box]

ConfigSpace ==
    {Config(t, l, e, d) : t \in TrainSpace, l \in LoadSpace,
                          e \in EvalSpace, d \in SurfaceSpace}

DefaultConfig ==
    [max_num_iterations          |-> MaxIters,
     gradient_accumulation_steps |-> 1,
     steps_per_save              |-> 1,
     save_only_latest_checkpoint |-> TRUE,
     quit_on_train_completion    |-> FALSE,
     viewer_enabled              |-> TRUE,
     use_grad_scaler             |-> TRUE,
     load_scheduler              |-> TRUE,
     load_dir                    |-> FALSE,
     load_step                   |-> -1,
     load_checkpoint             |-> -1,
     prior_step                  |-> -1,
     prior_older                 |-> {},
     prior_model_keys            |-> "plain",
     prior_has_schedulers        |-> TRUE,
     model_keys                  |-> "plain",
     world_size                  |-> 1,
     pipeline_class              |-> "VanillaPipeline",
     eval_dataset                |-> FALSE,
     logging_enabled             |-> TRUE,
     steps_per_eval_batch        |-> 1,
     steps_per_eval_image        |-> 1,
     steps_per_eval_all_images   |-> 2,
     ray_bundle_surface_detection |-> FALSE,
     diagnostic_period           |-> DiagnosticPeriod,
     num_image                   |-> 2,
     plane_a                     |-> 0,
     plane_b                     |-> 0,
     plane_d                     |-> 0,
     box                         |-> "unit"]

ModelKeys == ModelKeySets[config.model_keys]

\* loading at most the latest checkpoint of the directory, written by the same
\* model, and training through VanillaPipeline
DefaultLoad(t) ==
    [load_step            |-> DefaultConfig.load_step,
     load_checkpoint      |-> DefaultConfig.load_checkpoint,
     prior_older          |-> DefaultConfig.prior_older,
     prior_model_keys     |-> t.model_keys,
     prior_has_schedulers |-> DefaultConfig.prior_has_schedulers,
     pipeline_class       |-> DefaultConfig.pipeline_class]

\* no evaluation dataset
DefaultEval ==
    [eval_dataset              |-> DefaultConfig.eval_dataset,
     logging_enabled           |-> DefaultConfig.logging_enabled,
     steps_per_eval_batch      |-> DefaultConfig.steps_per_eval_batch,
     steps_per_eval_image      |-> DefaultConfig.steps_per_eval_image,
     steps_per_eval_all_images |-> DefaultConfig.steps_per_eval_all_images]

\* no surface-detection ray bundle
DefaultSurface ==
    [ray_bundle_surface_detection |-> DefaultConfig.ray_bundle_surface_detection,
     diagnostic_period            |-> DefaultConfig.diagnostic_period,
     num_image                    |-> DefaultConfig.num_image,
     plane_a                      |-> DefaultConfig.plane_a,
     plane_b                      |-> DefaultConfig.plane_b,
     plane_d                      |-> DefaultConfig.plane_d,
     box                          |-> DefaultConfig.box]

\* ------------------------------------------------------------- pure helpers
RECURSIVE Pow10(_)
Pow10(n) == IF n = 0 THEN 1 ELSE 10 * Pow10(n - 1)

\* f"step-{step:09d}.ckpt": the decimal digits of the step, zero-padded
FileName(s) == [i \in 1..NameWidth |-> (s \div Pow10(NameWidth - i)) % 10]

\* int(x[x.find("-") + 1 : x.find(".")])
RECURSIVE DigitsValue(_)
DigitsValue(ds) ==
    IF Len(ds) = 0 THEN 0 ELSE 10 * DigitsValue(SubSeq(ds, 1, Len(ds) - 1)) + ds[Len(ds)]

\* the last digit cut off with the extension
FileStepCutShort(name) == DigitsValue(SubSeq(name, 1, Len(name) - 1))

FileStep(name) == DigitsValue(name)

RECURSIVE SetMax(_)
SetMax(S) ==
    LET x == CHOOSE y \in S : TRUE
    IN  IF S = {x} THEN x
        ELSE LET m == SetMax(S \ {x}) IN IF x > m THEN x ELSE m

StartsWith(key, prefix) ==
    /\ Len(key) >= Len(prefix)
    /\ SubSeq(key, 1, Len(prefix)) = prefix

Strip(key, n) == SubSeq(key, n + 1, Len(key))

CountOf(seq, kind) == Cardinality({i \in DOMAIN seq : seq[i].op = kind})

\* one recorded operation: what, at which step, and its argument
Ev(kind, s, x) == [op |-> kind, step |-> s, x |-> x]

\* ------------------------------------------------------- pipeline state dict
DmKey == <<"datamanager", "camera_opt">>

\* The prefix of the model's parameters in Pipeline.state_dict(): the attribute
\* _model, and the DistributedDataParallel wrapper's module when wrapped.
ModelPrefix == IF config.world_size > 1 THEN <<"_model", "module">> ELSE <<"_model">>

StateDictOf(model, datamanager) ==
    [key \in {ModelPrefix \o k : k \in DOMAIN model} \cup {DmKey} |->
        IF key = DmKey THEN datamanager ELSE model[Strip(key, Len(ModelPrefix))]]

PipelineStateDict == StateDictOf(pipeline.model, pipeline.datamanager)

\* {key[n:]: value for key, value in d.items()}, n name components dropped
StripKeys(d, n) ==
    [k2 \in {Strip(k, n) : k \in DOMAIN d} |-> d[CHOOSE k \in DOMAIN d : Strip(k, n) = k2]]

Restrict(d, S) == [k \in S |-> d[k]]

StripModule(key) == IF StartsWith(key, <<"module">>) THEN Strip(key, 1) ELSE key

\* {(key[len("module."):] if key.startswith("module.") else key): value ...}
StripModuleKeys(d) ==
    [k2 \in {StripModule(k) : k \in DOMAIN d} |->
        d[CHOOSE k \in DOMAIN d : StripModule(k) = k2]]

\* Model.load_state_dict of torch: every entry whose name is a parameter of the
\* model is copied; strict loading then raises when the names do not match.
ModelLoad(model, model_state) ==
    [k \in DOMAIN model |-> IF k \in DOMAIN model_state THEN model_state[k] ELSE model[k]]

KeysMatch(model, model_state) == DOMAIN model_state = DOMAIN model

\* the test the except branch makes on strict (None, True or False)
RetryRelaxed(strict) == strict \in {"None", "False"}

IsDdpModelState(state_dict) ==
    \A key \in DOMAIN state_dict :
        StartsWith(key, <<"_model">>) => StartsWith(key, <<"_model", "module">>)

\* model_state: the entries under _model., without that prefix and, for what
\* is taken to be a DistributedDataParallel state, without module.
ModelState(state_dict) ==
    LET model_keys == {key \in DOMAIN state_dict : StartsWith(key, <<"_model">>)}
        unprefixed == StripKeys(Restrict(state_dict, model_keys), 1)
    IN  IF IsDdpModelState(state_dict) THEN StripKeys(unprefixed, 1) ELSE unprefixed

\* Pipeline.load_state_dict: [raised, model, datamanager]
LoadStateDict(state_dict, strict) ==
    LET model_keys     == {key \in DOMAIN state_dict : StartsWith(key, <<"_model">>)}
        model_state    == ModelState(state_dict)
        pipeline_state == Restrict(state_dict, DOMAIN state_dict \ model_keys)
        raised         == ~KeysMatch(pipeline.model, model_state) /\ ~RetryRelaxed(strict)
    IN  [raised      |-> raised,
         model       |-> ModelLoad(pipeline.model, model_state),
         datamanager |-> IF ~raised /\ DmKey \in DOMAIN pipeline_state
                         THEN pipeline_state[DmKey] ELSE pipeline.datamanager]

\* VanillaPipeline.load_pipeline
LoadPipeline(loaded_state) ==
    LoadStateDict(StripModuleKeys(loaded_state), "None")

\* -------------------------------------------------------------- GradScaler
InitScaleLevel == 1

FreshScaler == [level |-> InitScaleLevel, growth_tracker |-> 0, found_inf |-> FALSE]

\* GradScaler.state_dict(): empty for a disabled scaler
ScalerStateDict(gs) ==
    IF config.use_grad_scaler
    THEN [present |-> TRUE, level |-> gs.level, growth_tracker |-> gs.growth_tracker]
    ELSE [present |-> FALSE, level |-> 0, growth_tracker |-> 0]

\* GradScaler.load_state_dict(): nothing for a disabled scaler
ScalerLoad(gs, sd) ==
    IF config.use_grad_scaler
    THEN [gs EXCEPT !.level = sd.level, !.growth_tracker = sd.growth_tracker]
    ELSE gs

\* GradScaler.get_scale(): 1.0 for a disabled scaler, else 2^level
RECURSIVE Pow2(_)
Pow2(n) == IF n = 0 THEN 1 ELSE 2 * Pow2(n - 1)

GetScale(gs) == IF config.use_grad_scaler THEN Pow2(gs.level) ELSE 1

\* GradScaler.update(): back off after an overflow, grow after GrowthInterval
\* clean steps (the level is capped at MaxScaleLevel)
ScalerUpdated(gs) ==
    IF ~config.use_grad_scaler THEN gs
    ELSE IF gs.found_inf
    THEN [level |-> gs.level - 1, growth_tracker |-> 0, found_inf |-> FALSE]
    ELSE IF gs.growth_tracker + 1 = GrowthInterval
    THEN [level |-> IF gs.level < MaxScaleLevel THEN gs.level + 1 ELSE gs.level,
          growth_tracker |-> 0, found_inf |-> FALSE]
    ELSE [gs EXCEPT !.growth_tracker = gs.growth_tracker + 1]

\* ---------------------------------------------------------- checkpoint state
\* the compound record torch.save is given in save_checkpoint
CheckpointState(s) ==
    [step       |-> s,
     pipeline   |-> PipelineStateDict,
     optimizers |-> optimizers.optimizers,
     schedulers |-> optimizers.schedulers,
     scalers    |-> ScalerStateDict(grad_scaler)]

\* What an earlier run of the same configuration left at step s: s + 1 clean
\* iterations from the fresh state.
PriorScaler(s) ==
    [level |-> IF InitScaleLevel + ((s + 1) \div GrowthInterval) > MaxScaleLevel
               THEN MaxScaleLevel ELSE InitScaleLevel + ((s + 1) \div GrowthInterval),
     growth_tracker |-> (s + 1) % GrowthInterval,
     found_inf |-> FALSE]

PriorState(s) ==
    LET state == [step       |-> s,
                  pipeline   |-> StateDictOf([k \in ModelKeySets[config.prior_model_keys]
                                                  |-> s + 1], s + 1),
                  optimizers |-> [g \in Groups |-> s + 1],
                  schedulers |-> [g \in Groups |-> s + 1],
                  scalers    |-> ScalerStateDict(PriorScaler(s))]
    IN  IF config.prior_has_schedulers
        THEN state
        ELSE [f \in DOMAIN state \ {"schedulers"} |-> state[f]]

\* the steps of the checkpoints in the directory when the trainer is built
PriorSteps ==
    IF config.prior_step >= 0 THEN {config.prior_step} \cup config.prior_older ELSE {}

CompleteFiles == {n \in DOMAIN checkpoint_dir : checkpoint_dir[n].complete}

\* -------------------------------------------------------------------- Init
InitWith(configs) ==
    /\ config \in configs
    /\ pc = "setup"
    /\ ret = "none"
    /\ step = 0
    /\ iter = 0
    /\ start_step = 0
    /\ training_state = "training"
    /\ train_lock = "free"
    /\ viewer = "idle"
    /\ accum = 0
    /\ scale = 0
    /\ pipeline = [mode |-> "train", model |-> [k \in ModelKeys |-> 0],
                   datamanager |-> 0, fetched |-> 0]
    /\ grads = <<>>
    /\ optimizers = [optimizers |-> [g \in Groups |-> 0],
                     schedulers |-> [g \in Groups |-> 0]]
    /\ grad_scaler = FreshScaler
    /\ checkpoint_dir = [n \in {FileName(s) : s \in PriorSteps} |->
                            [complete |-> TRUE, state |-> PriorState(FileStep(n))]]
    /\ loaded = <<>>
    /\ calls = <<>>
    /\ events = <<>>
    /\ sched_entry = [g \in Groups |-> 0]
    /\ finish = <<>>
    /\ saves = <<>>
    /\ writer = <<>>
    /\ console = <<>>
    /\ callbacks = <<>>
    /\ plane_t = 0
    /\ reports = <<>>

\* ------------------------------------------------- collaborators' operations
\* the periodic trigger: step is a non-zero multiple of step_size (or zero,
\* with run_at_zero)
StepCheck(s, step_size, run_at_zero) ==
    IF step_size = 0 THEN FALSE
    ELSE (run_at_zero \/ s # 0) /\ s % step_size = 0

\* the model's callbacks ahead of the data manager's
CallbacksModelFirst == <<"model", "datamanager">>

\* get_training_callbacks: the data manager's callbacks, then the model's
Callbacks == <<"datamanager", "model">>

\* for callback in self.callbacks: callback.run_callback_at_location(step,
\* location), recorded with the callback's place in the list
RunCallbacks(location, s) == [i \in 1..Len(callbacks) |-> Ev(location, s, i)]

\* Optimizers.scheduler_step_all: one step of every group's scheduler
SchedulerStepAll(schedulers) == [g \in Groups |-> schedulers[g] + 1]

\* Optimizers.optimizer_scaler_step_all: one step of every group's optimizer
OptimizerStepAll(opts) == [g \in Groups |-> opts[g] + 1]

\* the parameter update of one applied optimizer step
Updated(model) == [k \in DOMAIN model |-> model[k] + 1]

\* The gradient of the loss over one unit batch, for a loss that is linear in
\* the composition of the batch: the gradient over several batches taken
\* together is the mean of theirs.
BatchGradient(batch) == 2 * batch + 1

\* the sum of two fractions [num, den]
RatAdd(x, y) == [num |-> x.num * y.den + y.num * x.den, den |-> x.den * y.den]

RatEq(x, y) == x.num * y.den = y.num * x.den

\* What backward has accumulated in the gradient buffer since it was zeroed:
\* the sum, over the sub-steps, of the gradient of the divided loss.
RECURSIVE Accumulated(_)
Accumulated(g) ==
    IF Len(g) = 0 THEN [num |-> 0, den |-> 1]
    ELSE RatAdd(Accumulated(SubSeq(g, 1, Len(g) - 1)),
                [num |-> BatchGradient(g[Len(g)].batch), den |-> g[Len(g)].div])

\* ------------------------------------------------------ setup: load checkpoint
\* sorted(int(...) for x in os.listdir(load_dir))[-1]: the largest step among
\* the file names
\* the first element of the sorted listing taken for the last
EarliestStep(dir) == 0 - SetMax({0 - FileStep(n) : n \in DOMAIN dir})

LatestStep(dir) == SetMax({FileStep(n) : n \in DOMAIN dir})

\* a load_step taken to ask for a load from the directory
LoadSourceByStep ==
    IF config.load_dir \/ config.load_step >= 0 THEN "dir"
    ELSE IF config.load_checkpoint >= 0 THEN "file"
    ELSE "none"

\* the file looked at before the directory
LoadSourceFileFirst ==
    IF config.load_checkpoint >= 0 THEN "file"
    ELSE IF config.load_dir THEN "dir"
    ELSE "none"

\* if load_dir is not None: ... elif load_checkpoint is not None: ... else: ...
LoadSource ==
    IF config.load_dir THEN "dir"
    ELSE IF config.load_checkpoint >= 0 THEN "file"
    ELSE "none"

\* the directory listing has no last element
ListingEmpty(dir) == config.load_step < 0 /\ DOMAIN dir = {}

\* the step the directory resolves to: load_step, or the latest when it is None
ResolvedStep(dir) == IF config.load_step < 0 THEN LatestStep(dir) ELSE config.load_step

\* load_path, or load_checkpoint
LoadPath(dir) ==
    IF LoadSource = "dir" THEN FileName(ResolvedStep(dir)) ELSE FileName(config.load_checkpoint)

\* if "schedulers" in loaded_state and self.config.load_scheduler
RestoresSchedulers(loaded_state) ==
    "schedulers" \in DOMAIN loaded_state /\ config.load_scheduler

LoadCheckpoint ==
    /\ pc = "setup"
    /\ IF LoadSource = "none"
       THEN /\ pc' = "train"
            /\ UNCHANGED <<start_step, pipeline, optimizers, grad_scaler, loaded>>
       ELSE IF LoadSource = "dir" /\ ListingEmpty(checkpoint_dir)
       THEN \* IndexError: list index out of range
            /\ pc' = "index_error"
            /\ UNCHANGED <<start_step, pipeline, optimizers, grad_scaler, loaded>>
       ELSE IF LoadPath(checkpoint_dir) \notin DOMAIN checkpoint_dir
       THEN \* AssertionError: Checkpoint ... does not exist
            /\ pc' = "load_failed"
            /\ UNCHANGED <<start_step, pipeline, optimizers, grad_scaler, loaded>>
       ELSE IF ~checkpoint_dir[LoadPath(checkpoint_dir)].complete
       THEN \* torch.load raises on a truncated file
            /\ pc' = "load_error"
            /\ UNCHANGED <<start_step, pipeline, optimizers, grad_scaler, loaded>>
       ELSE LET loaded_state == checkpoint_dir[LoadPath(checkpoint_dir)].state
                res          == LoadPipeline(loaded_state.pipeline)
            IN  /\ start_step' = loaded_state.step + 1
                /\ loaded' = <<loaded_state>>
                /\ pipeline' = [pipeline EXCEPT !.model = res.model,
                                                !.datamanager = res.datamanager]
                /\ IF res.raised
                   THEN /\ pc' = "load_error"
                        /\ UNCHANGED <<optimizers, grad_scaler>>
                   ELSE /\ pc' = "train"
                        /\ optimizers' =
                             [optimizers |-> loaded_state.optimizers,
                              schedulers |-> IF RestoresSchedulers(loaded_state)
                                             THEN loaded_state.schedulers
                                             ELSE optimizers.schedulers]
                        /\ grad_scaler' = ScalerLoad(grad_scaler, loaded_state.scalers)
    \* self.callbacks = self.pipeline.get_training_callbacks(...), once the
    \* load has returned
    /\ callbacks' = IF pc' = "train" THEN Callbacks ELSE callbacks
    /\ UNCHANGED <<plane_t, reports, writer, console, saves, config, ret, step, iter, training_state,
                   train_lock, viewer, accum, scale, grads, checkpoint_dir, calls,
                   events, sched_entry, finish>>

\* ------------------------------------------------------------- Trainer.train
TrainStart ==
    /\ pc = "train"
    /\ step' = 0
    /\ pc' = "for_head"
    /\ UNCHANGED <<callbacks, plane_t, reports, writer, console, saves, config, ret, iter, start_step, training_state, train_lock, viewer,
                   accum, scale, pipeline, grads, optimizers, grad_scaler,
                   checkpoint_dir, loaded, calls, events, sched_entry, finish>>

\* range(self._start_step, self._start_step + num_iterations)
IterationsRemain(i) == i < config.max_num_iterations

\* the loop counting from zero whatever the start step
LoopStepFromZero(start, i) == i

LoopStep(start, i) == start + i

ForHead ==
    /\ pc = "for_head"
    /\ IF IterationsRemain(iter)
       THEN /\ step' = LoopStep(start_step, iter)
            /\ iter' = iter + 1
            /\ events' = <<>>
            /\ pc' = "pause_check"
       ELSE /\ pc' = "final_save"
            /\ UNCHANGED <<step, iter, events>>
    /\ UNCHANGED <<callbacks, plane_t, reports, writer, console, saves, config, ret, start_step, training_state, train_lock, viewer, accum,
                   scale, pipeline, grads, optimizers, grad_scaler, checkpoint_dir,
                   loaded, calls, sched_entry, finish>>

\* the wait left whatever the training state
StaysPausedNever(state) == FALSE

\* the wait never left
StaysPausedAlways(state) == TRUE

\* while self.training_state == "paused"
StaysPaused(state) == state = "paused"

PauseCheck ==
    /\ pc = "pause_check"
    /\ pc' = IF StaysPaused(training_state) THEN "pause_sleep" ELSE "acquire"
    /\ UNCHANGED <<callbacks, plane_t, reports, writer, console, saves, config, ret, step, iter, start_step, training_state, train_lock,
                   viewer, accum, scale, pipeline, grads, optimizers, grad_scaler,
                   checkpoint_dir, loaded, calls, events, sched_entry, finish>>

PauseSleep ==
    /\ pc = "pause_sleep"
    /\ pc' = "pause_check"
    /\ UNCHANGED <<callbacks, plane_t, reports, writer, console, saves, config, ret, step, iter, start_step, training_state, train_lock,
                   viewer, accum, scale, pipeline, grads, optimizers, grad_scaler,
                   checkpoint_dir, loaded, calls, events, sched_entry, finish>>

\* the loop going on without taking the lock
AcquireLockUnguarded ==
    /\ pc = "acquire"
    /\ pc' = "pipeline_train"
    /\ UNCHANGED <<callbacks, plane_t, reports, writer, console, saves, config, ret, step, iter, start_step, training_state, train_lock,
                   viewer, accum, scale, pipeline, grads, optimizers, grad_scaler,
                   checkpoint_dir, loaded, calls, events, sched_entry, finish>>

AcquireLock ==
    /\ pc = "acquire"
    /\ train_lock = "free"
    /\ train_lock' = "trainer"
    /\ pc' = "pipeline_train"
    /\ UNCHANGED <<callbacks, plane_t, reports, writer, console, saves, config, ret, step, iter, start_step, training_state, viewer, accum,
                   scale, pipeline, grads, optimizers, grad_scaler, checkpoint_dir,
                   loaded, calls, events, sched_entry, finish>>

\* the mode left as it was
ModeKept(mode) == mode

\* self.train(): training mode, whatever the mode was
TrainMode(mode) == "train"

\* self.eval(): evaluation mode, whatever the mode was
EvalMode(mode) == "eval"

PipelineTrain ==
    /\ pc = "pipeline_train"
    /\ pipeline' = [pipeline EXCEPT !.mode = TrainMode(pipeline.mode)]
    /\ pc' = "before_cb"
    /\ UNCHANGED <<callbacks, plane_t, reports, writer, console, saves, config, ret, step, iter, start_step, training_state, train_lock,
                   viewer, accum, scale, grads, optimizers, grad_scaler, checkpoint_dir,
                   loaded, calls, events, sched_entry, finish>>

\* the lock still held where the with block was left
ExitWithHeld(lock) == lock

\* with self.train_lock: the lock is released wherever the block is left, at
\* its end or by an exception
ExitWith(lock) == "free"

\* The callbacks of one location, run inside the with block of the lock: all
\* return (raising = 0), or the callback at place raising raises after those
\* before it returned, and the exception leaves the with block, which
\* releases the lock.
CallbacksRun(location, raising, next) ==
    IF raising = 0
    THEN /\ events' = events \o RunCallbacks(location, step)
         /\ pc' = next
         /\ UNCHANGED train_lock
    ELSE /\ events' = events \o SubSeq(RunCallbacks(location, step), 1, raising - 1)
         /\ pc' = "callback_error"
         /\ train_lock' = ExitWith(train_lock)

BeforeCallbacks ==
    /\ pc = "before_cb"
    /\ \E raising \in 0..Len(callbacks) : CallbacksRun("before_iter", raising, "zero_grad")
    /\ UNCHANGED <<callbacks, plane_t, reports, writer, console, saves, config, ret, step, iter, start_step, training_state,
                   viewer, accum, scale, pipeline, grads, optimizers, grad_scaler,
                   checkpoint_dir, loaded, calls, sched_entry, finish>>

\* ---------------------------------------------------- Trainer.train_iteration
ZeroGrad ==
    /\ pc = "zero_grad"
    /\ calls' = Append(calls, step)
    /\ grads' = <<>>
    /\ events' = Append(events, Ev("zero_grad", step, 0))
    /\ sched_entry' = optimizers.schedulers
    /\ pc' = "assert_accum"
    /\ UNCHANGED <<callbacks, plane_t, reports, writer, console, saves, config, ret, step, iter, start_step, training_state, train_lock,
                   viewer, accum, scale, pipeline, optimizers, grad_scaler,
                   checkpoint_dir, loaded, finish>>

AccumulationValid(k) == k > 0

AssertAccum ==
    /\ pc = "assert_accum"
    /\ IF AccumulationValid(config.gradient_accumulation_steps)
       THEN /\ pc' = "accum"
            /\ accum' = 0
            /\ UNCHANGED train_lock
       ELSE /\ pc' = "assert_failed"
            /\ train_lock' = ExitWith(train_lock)
            /\ UNCHANGED accum
    /\ UNCHANGED <<callbacks, plane_t, reports, writer, console, saves, config, ret, step, iter, start_step, training_state, viewer, scale,
                   pipeline, grads, optimizers, grad_scaler, checkpoint_dir, loaded,
                   calls, events, sched_entry, finish>>

\* one sub-step too many
SubStepsRemainOffByOne(done) == done <= config.gradient_accumulation_steps

SubStepsRemain(done) == done < config.gradient_accumulation_steps

\* one pass of the accumulation loop: fetch a batch, forward, scale the summed
\* loss by 1/gradient_accumulation_steps, backward
\* get_train_loss_dict: Pipeline propagates the step to the train sampler when
\* world_size > 1 and step is truthy; VanillaPipeline overrides the method and
\* does not
SetsEpoch(s) ==
    /\ config.pipeline_class = "Pipeline"
    /\ config.world_size > 1
    /\ s # 0

\* the loss divided by the number of sub-steps done so far
LossDivisorSoFar == accum + 1

\* loss /= self.gradient_accumulation_steps
LossDivisor == config.gradient_accumulation_steps

AccumStep ==
    /\ pc = "accum"
    /\ SubStepsRemain(accum)
    /\ LET batch == pipeline.fetched
       IN  /\ pipeline' = [pipeline EXCEPT !.fetched = batch + 1]
           /\ grads' = Append(grads, [batch |-> batch, div |-> LossDivisor])
           /\ events' = events
                          \o (IF SetsEpoch(step) THEN <<Ev("set_epoch", step, step)>> ELSE <<>>)
                          \o <<Ev("fetch", step, batch),
                               Ev("backward", step, config.gradient_accumulation_steps)>>
    /\ accum' = accum + 1
    /\ UNCHANGED <<callbacks, plane_t, reports, writer, console, saves, config, pc, ret, step, iter, start_step, training_state, train_lock,
                   viewer, scale, optimizers, grad_scaler, checkpoint_dir, loaded,
                   calls, sched_entry, finish>>

\* optimizer_scaler_step_all: the scaler skips the step when the gradients
\* hold an inf or a nan
OptimizerStep ==
    /\ pc = "accum"
    /\ ~SubStepsRemain(accum)
    /\ \E inf \in IF config.use_grad_scaler /\ grad_scaler.level > 0
                  THEN BOOLEAN ELSE {FALSE} :
          /\ grad_scaler' = [grad_scaler EXCEPT !.found_inf = inf]
          /\ IF inf
             THEN UNCHANGED <<optimizers, pipeline>>
             ELSE /\ optimizers' = [optimizers EXCEPT
                                      !.optimizers = OptimizerStepAll(optimizers.optimizers)]
                  /\ pipeline' = [pipeline EXCEPT
                                      !.model = Updated(pipeline.model),
                                      !.datamanager = pipeline.datamanager + 1]
    /\ events' = Append(events, Ev("optimizer_step", step, 0))
    /\ pc' = "scaler_update"
    /\ UNCHANGED <<callbacks, plane_t, reports, writer, console, saves, config, ret, step, iter, start_step, training_state, train_lock,
                   viewer, accum, scale, grads, checkpoint_dir, loaded, calls,
                   sched_entry, finish>>

\* the scheduler stepping only when the scale grew
SchedulerShouldStepStrict(before, after) == before < after

\* the scheduler steps unless the scale decreased
SchedulerShouldStep(before, after) == before <= after

ScalerUpdate ==
    /\ pc = "scaler_update"
    /\ scale' = GetScale(grad_scaler)
    /\ grad_scaler' = ScalerUpdated(grad_scaler)
    /\ IF SchedulerShouldStep(scale', GetScale(grad_scaler'))
       THEN /\ optimizers' = [optimizers EXCEPT
                                !.schedulers = SchedulerStepAll(optimizers.schedulers)]
            /\ events' = Append(events, Ev("scheduler_step", step, 0))
       ELSE UNCHANGED <<optimizers, events>>
    /\ pc' = "after_cb"
    /\ UNCHANGED <<callbacks, plane_t, reports, writer, console, saves, config, ret, step, iter, start_step, training_state, train_lock,
                   viewer, accum, pipeline, grads, checkpoint_dir, loaded, calls,
                   sched_entry, finish>>

AfterCallbacks ==
    /\ pc = "after_cb"
    /\ \E raising \in 0..Len(callbacks) : CallbacksRun("after_iter", raising, "release")
    /\ UNCHANGED <<callbacks, plane_t, reports, writer, console, saves, config, ret, step, iter, start_step, training_state,
                   viewer, accum, scale, pipeline, grads, optimizers, grad_scaler,
                   checkpoint_dir, loaded, calls, sched_entry, finish>>

ReleaseLock ==
    /\ pc = "release"
    /\ train_lock' = ExitWith(train_lock)
    /\ pc' = "rays_per_sec"
    /\ UNCHANGED <<callbacks, plane_t, reports, writer, console, saves, config, ret, step, iter, start_step, training_state, viewer, accum,
                   scale, pipeline, grads, optimizers, grad_scaler, checkpoint_dir,
                   loaded, calls, events, sched_entry, finish>>

\* ------------------------------------------- Trainer.train, after the iteration
\* the event emitted from step 1 on
EmitsRaysPerSecFromOne(s) == s > 0

\* if step > 1
EmitsRaysPerSec(s) == s > 1

\* writer.put_time(name=EventName.TRAIN_RAYS_PER_SEC, ..., step=step), recorded
\* with the number of the iteration of this run that emits it
RaysPerSec ==
    /\ pc = "rays_per_sec"
    /\ writer' = IF EmitsRaysPerSec(step)
                 THEN Append(writer, Ev("rays_per_sec", step, iter))
                 ELSE writer
    /\ pc' = "update_viewer"
    /\ UNCHANGED <<callbacks, plane_t, reports, console, saves, config, ret, step, iter, start_step, training_state,
                   train_lock, viewer, accum, scale, pipeline, grads, optimizers,
                   grad_scaler, checkpoint_dir, loaded, calls, events, sched_entry,
                   finish>>

\* the decorator check_viewer_enabled: the body runs only with a viewer
ViewerEnabled == config.viewer_enabled

\* how a call into the viewer ends: it returns, or it raises a RuntimeError,
\* or it raises an exception of another class
ViewerOutcomes == {"returns", "RuntimeError", "Exception"}

\* except RuntimeError
Caught(outcome) == outcome = "RuntimeError"

\* time.sleep(0.03); CONSOLE.log("Viewer failed. Continuing training.")
ViewerFailed(s) == <<Ev("sleep", s, 3), Ev("log", s, 0)>>

\* _update_viewer_state: update_scene inside try ... except RuntimeError
UpdateViewerState ==
    /\ pc = "update_viewer"
    /\ IF ViewerEnabled
       THEN \E outcome \in ViewerOutcomes :
              /\ events' = Append(events, Ev("update_scene", step,
                                             IF outcome = "returns" THEN 1 ELSE 0))
              /\ IF outcome = "returns"
                 THEN pc' = "log" /\ UNCHANGED console
                 ELSE IF Caught(outcome)
                 THEN pc' = "log" /\ console' = console \o ViewerFailed(step)
                 ELSE pc' = "viewer_error" /\ UNCHANGED console
       ELSE /\ pc' = "log"
            /\ UNCHANGED <<events, console>>
    /\ UNCHANGED <<callbacks, plane_t, reports, writer, saves, config, ret, step, iter, start_step, training_state,
                   train_lock, viewer, accum, scale, pipeline, grads, optimizers,
                   grad_scaler, checkpoint_dir, loaded, calls, sched_entry, finish>>

LogMetrics ==
    /\ pc = "log"
    /\ pc' = "diagnostic"
    /\ UNCHANGED <<callbacks, plane_t, reports, writer, console, saves, config, ret, step, iter, start_step, training_state, train_lock,
                   viewer, accum, scale, pipeline, grads, optimizers, grad_scaler,
                   checkpoint_dir, loaded, calls, events, sched_entry, finish>>

\* --------------------------------------------------- the surface diagnostic
\* the diagnostic run without a surface-detection ray bundle
RunsDiagnosticUnconfigured(s) == s % DiagnosticPeriod = 0

\* if self.pipeline.datamanager.ray_bundle_surface_detection and step % 1000 == 0
RunsDiagnostic(s) ==
    /\ config.ray_bundle_surface_detection
    /\ s % DiagnosticPeriod = 0

\* len(output), for the pair (depth, color) get_surface_detection returns
SurfaceOutputLen == 2

\* the depth the model gives the rays: it moves with every parameter update
ModelDepth(model) == SetMax({model[k] : k \in DOMAIN model})

\* The plane a*x + b*y + c*z + d = 0 fitted by the linear regression to the
\* world points of the rays: the slopes of the surface the rays see, and its
\* height as the model's depth puts it.
FitPlane(model) ==
    [a |-> config.plane_a, b |-> config.plane_b, c |-> -1,
     d |-> config.plane_d + ModelDepth(model)]

\* t_temp = -(a*3 + b*3 + d) / c: the height of the plane at the reference
\* point; c is -1, so that dividing by c is multiplying by it
PlaneReference(p) == (0 - (p.a * 3 + p.b * 3 + p.d)) * p.c

Abs(x) == IF x < 0 THEN 0 - x ELSE x

\* the eight vertices of a box, numbered so that the x edges join i and i + 4,
\* the y edges i and i + 2 and the z edges i and i + 1
Vertices(box) ==
    [i \in 0..7 |->
        [k \in 1..3 |-> box.origin[k] + (i \div 4) * box.x[k]
                                      + ((i \div 2) % 2) * box.y[k]
                                      + (i % 2) * box.z[k]]]

\* edges = {"x": [(0, 4), (1, 5), (2, 6), (3, 7)], "y": [(0, 2), (1, 3),
\* (4, 6), (5, 7)], "z": [(0, 1), (2, 3), (4, 5), (6, 7)]}, in this order
Edges ==
    <<[dir |-> "x", i |-> 0, j |-> 4], [dir |-> "x", i |-> 1, j |-> 5],
      [dir |-> "x", i |-> 2, j |-> 6], [dir |-> "x", i |-> 3, j |-> 7],
      [dir |-> "y", i |-> 0, j |-> 2], [dir |-> "y", i |-> 1, j |-> 3],
      [dir |-> "y", i |-> 4, j |-> 6], [dir |-> "y", i |-> 5, j |-> 7],
      [dir |-> "z", i |-> 0, j |-> 1], [dir |-> "z", i |-> 2, j |-> 3],
      [dir |-> "z", i |-> 4, j |-> 5], [dir |-> "z", i |-> 6, j |-> 7]>>

\* t = -(a*sv[0] + b*sv[1] + c*sv[2] + d) / (a*dv[0] + b*dv[1] + c*dv[2]),
\* kept as a fraction
SolveT(a, b, c, d, sv, dv) ==
    [num |-> 0 - (a * sv[1] + b * sv[2] + c * sv[3] + d),
     den |-> a * dv[1] + b * dv[2] + c * dv[3]]

\* the ends of the edge left out
InUnitIntervalOpen(q) ==
    \/ q.den > 0 /\ 0 < q.num /\ q.num < q.den
    \/ q.den < 0 /\ q.den < q.num /\ q.num < 0

\* 0 <= t <= 1.  With a zero denominator the floating-point quotient is an
\* infinity or a nan, and the comparison is false.
InUnitInterval(q) ==
    \/ q.den > 0 /\ 0 <= q.num /\ q.num <= q.den
    \/ q.den < 0 /\ q.den <= q.num /\ q.num <= 0

\* starting_vertex + t * directional_vector, every coordinate over the
\* denominator of t
PointAt(sv, q, dv) ==
    [num |-> [k \in 1..3 |-> sv[k] * q.den + q.num * dv[k]], den |-> q.den]

\* Trainer.derive_nsa: the intersections of the plane with the twelve edges
RECURSIVE DeriveNsaFrom(_, _, _, _, _, _, _)
DeriveNsaFrom(n, a, b, c, d, vertices, dirs) ==
    IF n > Len(Edges) THEN <<>>
    ELSE LET sv == vertices[Edges[n].i]
             dv == dirs[Edges[n].dir]
             q  == SolveT(a, b, c, d, sv, dv)
         IN  (IF InUnitInterval(q) THEN <<PointAt(sv, q, dv)>> ELSE <<>>)
               \o DeriveNsaFrom(n + 1, a, b, c, d, vertices, dirs)

derive_nsa(a, b, c, d, vertices, x_dir, y_dir, z_dir) ==
    DeriveNsaFrom(1, a, b, c, d, vertices, [x |-> x_dir, y |-> y_dir, z |-> z_dir])

\* return depth, color: the pair get_surface_detection returns, each the
\* model's output of that name for every ray of the bundle, the rays of all
\* the cameras
get_surface_detection(num_image) ==
    <<[output |-> "depth", cameras |-> 1..num_image],
      [output |-> "rgb", cameras |-> 1..num_image]>>

\* depth = output[i] for i in range(num_image): what is back-projected for
\* every camera
BackProjected(output, num_image) == [i \in 1..num_image |-> output[i]]

\* The guard of the diagnostic.  t is set to 0 in every iteration.  When the
\* ray bundle is configured and the step is due, get_surface_detection is
\* entered and puts the pipeline in eval mode.
SurfaceGuard ==
    /\ pc = "diagnostic"
    /\ plane_t' = 0
    /\ IF RunsDiagnostic(step)
       THEN /\ pipeline' = [pipeline EXCEPT !.mode = EvalMode(pipeline.mode)]
            /\ pc' = "surface_detection"
       ELSE /\ pc' = "eval"
            /\ UNCHANGED pipeline
    /\ UNCHANGED <<callbacks, reports, writer, console, saves, config, ret, step, iter,
                   start_step, training_state, train_lock, viewer, accum, scale,
                   grads, optimizers, grad_scaler, checkpoint_dir, loaded, calls,
                   events, sched_entry, finish>>

\* The body of the diagnostic.  get_surface_detection runs the model without
\* gradients, puts the pipeline back in train mode and returns; the length of
\* its output is asserted to be the number of the expanded cameras; the
\* output is back-projected camera by camera, the plane is fitted, its
\* reference value and the difference are reported, and the plot with the
\* intersections is saved.
SurfaceDetection ==
    /\ pc = "surface_detection"
    /\ pipeline' = [pipeline EXCEPT !.mode = TrainMode(pipeline.mode)]
    /\ LET output == get_surface_detection(config.num_image)
       IN  IF config.num_image = Len(output)
           THEN LET plane  == FitPlane(pipeline.model)
                    box    == Boxes[config.box]
                    t_temp == PlaneReference(plane)
                    diff   == Abs(plane_t - t_temp)
                IN  /\ plane_t' = t_temp
                    /\ reports' = Append(reports,
                          [step    |-> step,
                           depths  |-> BackProjected(output, config.num_image),
                           plane   |-> plane,
                           t_temp  |-> t_temp,
                           diff    |-> diff,
                           bbox_intersections |->
                               derive_nsa(plane.a, plane.b, plane.c, plane.d,
                                          Vertices(box), box.x, box.y, box.z)])
                    /\ pc' = "eval"
           ELSE \* AssertionError: false length
                /\ pc' = "false_length"
                /\ UNCHANGED <<plane_t, reports>>
    /\ UNCHANGED <<callbacks, writer, console, saves, config, ret, step, iter, start_step,
                   training_state, train_lock, viewer, accum, scale, grads,
                   optimizers, grad_scaler, checkpoint_dir, loaded, calls, events,
                   sched_entry, finish>>

\* the diagnostic of one step, taken in two: the guard with the entry of
\* get_surface_detection, then the body
Diagnostic ==
    /\ pc \in {"diagnostic", "surface_detection"}
    /\ IF pc = "diagnostic" THEN SurfaceGuard ELSE SurfaceDetection

\* the decorator check_eval_enabled: the body runs only with a telemetry
\* backend
EvalEnabled == config.logging_enabled

\* the three evaluations, in the order of eval_iteration
EvalKinds == <<"eval_batch", "eval_image", "eval_all_images">>

\* every evaluation on the period of the batch evaluation
EvalPeriodOfBatch(kind) == config.steps_per_eval_batch

EvalPeriod(kind) ==
    CASE kind = "eval_batch"      -> config.steps_per_eval_batch
      [] kind = "eval_image"      -> config.steps_per_eval_image
      [] kind = "eval_all_images" -> config.steps_per_eval_all_images

\* if step_check(step, self.config.steps_per_eval_...)
RunsEval(kind, s) == StepCheck(s, EvalPeriod(kind), FALSE)

\* the pipeline's routine of each evaluation
EvalRoutine(kind) ==
    CASE kind = "eval_batch"      -> "get_eval_loss_dict"
      [] kind = "eval_image"      -> "get_eval_image_metrics_and_images"
      [] kind = "eval_all_images" -> "get_average_eval_image_metrics"

EvalRoutines == {EvalRoutine(EvalKinds[n]) : n \in DOMAIN EvalKinds}

\* where eval_iteration goes on after its n-th evaluation
AfterEval(n) == IF n < Len(EvalKinds) THEN EvalKinds[n + 1] ELSE "save_check"

\* if self.pipeline.datamanager.eval_dataset: self.eval_iteration(step),
\* whose body runs only with a telemetry backend
EvalEntry ==
    /\ pc = "eval"
    /\ IF config.eval_dataset
       THEN /\ events' = Append(events, Ev("eval_iteration", step, 0))
            /\ pc' = IF EvalEnabled THEN EvalKinds[1] ELSE "save_check"
       ELSE /\ pc' = "save_check"
            /\ UNCHANGED events
    /\ UNCHANGED <<callbacks, plane_t, reports, writer, console, saves, config, ret, step,
                   iter, start_step, training_state, train_lock, viewer, accum,
                   scale, pipeline, grads, optimizers, grad_scaler, checkpoint_dir,
                   loaded, calls, sched_entry, finish>>

\* the step check of one evaluation: when it passes, the pipeline's routine
\* is entered and puts the pipeline in eval mode
EvalCheck ==
    /\ \E n \in DOMAIN EvalKinds :
          /\ pc = EvalKinds[n]
          /\ IF RunsEval(EvalKinds[n], step)
             THEN /\ pipeline' = [pipeline EXCEPT !.mode = EvalMode(pipeline.mode)]
                  /\ pc' = EvalRoutine(EvalKinds[n])
             ELSE /\ pc' = AfterEval(n)
                  /\ UNCHANGED pipeline
    /\ UNCHANGED <<callbacks, plane_t, reports, writer, console, saves, config, ret, step,
                   iter, start_step, training_state, train_lock, viewer, accum,
                   scale, grads, optimizers, grad_scaler, checkpoint_dir, loaded,
                   calls, events, sched_entry, finish>>

\* the pipeline's routine runs the model, puts the pipeline back in train
\* mode and returns; the image evaluation then puts the
\* test-rays-per-second timing event
EvalReturn ==
    /\ \E n \in DOMAIN EvalKinds :
          /\ pc = EvalRoutine(EvalKinds[n])
          /\ pipeline' = [pipeline EXCEPT !.mode = TrainMode(pipeline.mode)]
          /\ events' = Append(events, Ev(EvalKinds[n], step, 0))
          /\ writer' = IF EvalKinds[n] = "eval_image"
                       THEN Append(writer, Ev("test_rays_per_sec", step, iter))
                       ELSE writer
          /\ pc' = AfterEval(n)
    /\ UNCHANGED <<callbacks, plane_t, reports, console, saves, config, ret, step, iter,
                   start_step, training_state, train_lock, viewer, accum, scale,
                   grads, optimizers, grad_scaler, checkpoint_dir, loaded, calls,
                   sched_entry, finish>>

\* the evaluation of one step, taken in steps: the call of eval_iteration,
\* then for each of the three evaluations its step check with the entry of
\* the pipeline's routine, and the return of the routine
EvalIteration ==
    /\ pc \in {"eval"} \cup {EvalKinds[n] : n \in DOMAIN EvalKinds} \cup EvalRoutines
    /\ IF pc = "eval" THEN EvalEntry
       ELSE IF pc \in EvalRoutines THEN EvalReturn
       ELSE EvalCheck

SaveCheck ==
    /\ pc = "save_check"
    /\ IF StepCheck(step, config.steps_per_save, FALSE)
       THEN pc' = "save_open" /\ ret' = "flush"
       ELSE pc' = "flush" /\ UNCHANGED ret
    /\ UNCHANGED <<callbacks, plane_t, reports, writer, console, saves, config, step, iter, start_step, training_state, train_lock, viewer,
                   accum, scale, pipeline, grads, optimizers, grad_scaler,
                   checkpoint_dir, loaded, calls, events, sched_entry, finish>>

Flush ==
    /\ pc = "flush"
    /\ pc' = "for_head"
    /\ UNCHANGED <<callbacks, plane_t, reports, writer, console, saves, config, ret, step, iter, start_step, training_state, train_lock,
                   viewer, accum, scale, pipeline, grads, optimizers, grad_scaler,
                   checkpoint_dir, loaded, calls, events, sched_entry, finish>>

\* --------------------------------------------------- Trainer.save_checkpoint
\* torch.save opens ckpt_path for writing: an existing file of that name is
\* truncated, and the file is incomplete until the write ends
OpenForWrite(dir, name, state) ==
    [n \in DOMAIN dir \cup {name} |->
        IF n = name THEN [complete |-> FALSE, state |-> state] ELSE dir[n]]

SaveOpen ==
    /\ pc = "save_open"
    /\ checkpoint_dir' = OpenForWrite(checkpoint_dir, FileName(step), CheckpointState(step))
    /\ pc' = "save_write"
    /\ UNCHANGED <<callbacks, plane_t, reports, writer, console, saves, config, ret, step, iter, start_step, training_state, train_lock,
                   viewer, accum, scale, pipeline, grads, optimizers, grad_scaler,
                   loaded, calls, events, sched_entry, finish>>

SaveWrite ==
    /\ pc = "save_write"
    /\ checkpoint_dir' = [checkpoint_dir EXCEPT ![FileName(step)].complete = TRUE]
    /\ pc' = "save_prune"
    /\ UNCHANGED <<callbacks, plane_t, reports, writer, console, saves, config, ret, step, iter, start_step, training_state, train_lock,
                   viewer, accum, scale, pipeline, grads, optimizers, grad_scaler,
                   loaded, calls, events, sched_entry, finish>>

\* the write fails or the process is killed while the file is being written
WriteInterrupted ==
    /\ pc = "save_write"
    /\ pc' = "interrupted"
    /\ UNCHANGED <<callbacks, plane_t, reports, writer, console, saves, config, ret, step, iter, start_step, training_state, train_lock,
                   viewer, accum, scale, pipeline, grads, optimizers, grad_scaler,
                   checkpoint_dir, loaded, calls, events, sched_entry, finish>>

\* nothing pruned
PruneNothing(dir, name) == dir

\* for f in checkpoint_dir.glob("*"): if f != ckpt_path: f.unlink()
PruneOthers(dir, name) == Restrict(dir, DOMAIN dir \cap {name})

SavePrune ==
    /\ pc = "save_prune"
    /\ checkpoint_dir' = IF config.save_only_latest_checkpoint
                         THEN PruneOthers(checkpoint_dir, FileName(step))
                         ELSE checkpoint_dir
    /\ finish' = IF ret = "final_flush" THEN Append(finish, "save_checkpoint") ELSE finish
    /\ saves' = Append(saves, step)
    /\ pc' = ret
    /\ ret' = "none"
    /\ UNCHANGED <<callbacks, plane_t, reports, writer, console, config, step, iter, start_step, training_state,
                   train_lock, viewer, accum, scale, pipeline, grads, optimizers,
                   grad_scaler, loaded, calls, events, sched_entry>>

\* ------------------------------------------------ Trainer.train, after the loop
FinalSave ==
    /\ pc = "final_save"
    /\ pc' = "save_open"
    /\ ret' = "final_flush"
    /\ UNCHANGED <<callbacks, plane_t, reports, writer, console, saves, config, step, iter, start_step, training_state, train_lock, viewer,
                   accum, scale, pipeline, grads, optimizers, grad_scaler,
                   checkpoint_dir, loaded, calls, events, sched_entry, finish>>

FinalFlush ==
    /\ pc = "final_flush"
    /\ finish' = Append(finish, "write_out_storage")
    /\ pc' = "after_train_cb"
    /\ UNCHANGED <<callbacks, plane_t, reports, writer, console, saves, config, ret, step, iter, start_step, training_state, train_lock,
                   viewer, accum, scale, pipeline, grads, optimizers, grad_scaler,
                   checkpoint_dir, loaded, calls, events, sched_entry>>

AfterTrainCallbacks ==
    /\ pc = "after_train_cb"
    /\ finish' = finish \o [i \in 1..Len(callbacks) |-> "after_train"]
    /\ pc' = "complete"
    /\ UNCHANGED <<callbacks, plane_t, reports, writer, console, saves, config, ret, step, iter, start_step, training_state, train_lock,
                   viewer, accum, scale, pipeline, grads, optimizers, grad_scaler,
                   checkpoint_dir, loaded, calls, events, sched_entry>>

\* the idle wait entered without a viewer
EntersIdleWaitWithoutViewer == ~config.quit_on_train_completion

\* if not quit_on_train_completion: _train_complete_viewer(), whose body runs
\* only with a viewer
EntersIdleWait == ~config.quit_on_train_completion /\ ViewerEnabled

TrainComplete ==
    /\ pc = "complete"
    /\ IF EntersIdleWait
       THEN /\ training_state' = "completed"
            /\ pc' = "training_complete"
       ELSE /\ pc' = "returned"
            /\ UNCHANGED training_state
    /\ UNCHANGED <<callbacks, plane_t, reports, writer, console, saves, config, ret, step, iter, start_step, train_lock, viewer, accum,
                   scale, pipeline, grads, optimizers, grad_scaler, checkpoint_dir,
                   loaded, calls, events, sched_entry, finish>>

\* viewer_state.training_complete() inside try ... except RuntimeError
ViewerTrainingComplete ==
    /\ pc = "training_complete"
    /\ \E outcome \in ViewerOutcomes :
          IF outcome = "returns"
          THEN /\ finish' = Append(finish, "training_complete")
               /\ pc' = "idle"
               /\ UNCHANGED console
          ELSE IF Caught(outcome)
          THEN /\ finish' = Append(finish, "training_complete")
               /\ console' = console \o ViewerFailed(step)
               /\ pc' = "idle"
          ELSE /\ pc' = "viewer_error"
               /\ UNCHANGED <<finish, console>>
    /\ UNCHANGED <<callbacks, plane_t, reports, writer, saves, config, ret, step, iter, start_step, training_state,
                   train_lock, viewer, accum, scale, pipeline, grads, optimizers,
                   grad_scaler, checkpoint_dir, loaded, calls, events, sched_entry>>

\* while True: time.sleep(0.01)
IdleWait ==
    /\ pc = "idle"
    /\ UNCHANGED vars

\* ------------------------------------------------------------ viewer thread
\* the viewer exists from the start of the loop until the process ends
ViewerRuns ==
    /\ ViewerEnabled
    /\ pc \notin {"setup", "train", "returned", "load_failed", "index_error",
                "load_error", "viewer_error", "assert_failed", "interrupted",
                "false_length", "callback_error"}

\* the render thread takes the train lock to read the model
ViewerAcquire ==
    /\ ViewerRuns
    /\ viewer = "idle"
    /\ train_lock = "free"
    /\ train_lock' = "viewer"
    /\ viewer' = "rendering"
    /\ UNCHANGED <<callbacks, plane_t, reports, writer, console, saves, config, pc, ret, step, iter, start_step, training_state, accum,
                   scale, pipeline, grads, optimizers, grad_scaler, checkpoint_dir,
                   loaded, calls, events, sched_entry, finish>>

ViewerRelease ==
    /\ viewer = "rendering"
    /\ train_lock' = "free"
    /\ viewer' = "idle"
    /\ UNCHANGED <<callbacks, plane_t, reports, writer, console, saves, config, pc, ret, step, iter, start_step, training_state, accum,
                   scale, pipeline, grads, optimizers, grad_scaler, checkpoint_dir,
                   loaded, calls, events, sched_entry, finish>>

\* the viewer's pause button
Pause ==
    /\ ViewerRuns
    /\ training_state = "training"
    /\ training_state' = "paused"
    /\ UNCHANGED <<callbacks, plane_t, reports, writer, console, saves, config, pc, ret, step, iter, start_step, train_lock, viewer, accum,
                   scale, pipeline, grads, optimizers, grad_scaler, checkpoint_dir,
                   loaded, calls, events, sched_entry, finish>>

Resume ==
    /\ ViewerRuns
    /\ training_state = "paused"
    /\ training_state' = "training"
    /\ UNCHANGED <<callbacks, plane_t, reports, writer, console, saves, config, pc, ret, step, iter, start_step, train_lock, viewer, accum,
                   scale, pipeline, grads, optimizers, grad_scaler, checkpoint_dir,
                   loaded, calls, events, sched_entry, finish>>

\* ------------------------------------------------------------ specification
TrainerStep ==
    \/ LoadCheckpoint \/ TrainStart \/ ForHead \/ PauseCheck \/ PauseSleep
    \/ AcquireLock \/ PipelineTrain \/ BeforeCallbacks
    \/ ZeroGrad \/ AssertAccum \/ AccumStep \/ OptimizerStep \/ ScalerUpdate
    \/ AfterCallbacks \/ ReleaseLock
    \/ RaysPerSec \/ UpdateViewerState \/ LogMetrics \/ Diagnostic \/ EvalIteration
    \/ SaveCheck \/ Flush
    \/ SaveOpen \/ SaveWrite \/ WriteInterrupted \/ SavePrune
    \/ FinalSave \/ FinalFlush \/ AfterTrainCallbacks \/ TrainComplete
    \/ ViewerTrainingComplete \/ IdleWait

ViewerStep == ViewerAcquire \/ ViewerRelease \/ Pause \/ Resume

Next == TrainerStep \/ ViewerStep

\* the loop configurations: iterations, accumulation, save period, scaler,
\* viewer, and a fresh or a resumed start
LoopConfigs ==
    {Config(t, DefaultLoad(t), DefaultEval, DefaultSurface) : t \in {c \in TrainSpace :
        /\ c.save_only_latest_checkpoint
        /\ c.load_scheduler
        /\ c.model_keys = "plain"
        /\ c.world_size = 1
        /\ c.load_dir = (c.prior_step >= 0)}}

Init == InitWith(LoopConfigs)

Spec == Init /\ [][Next]_vars

\* the checkpoint configurations: save period, retention, and what an earlier
\* run left in the checkpoint directory
CkptConfigs ==
    {Config(t, DefaultLoad(t), DefaultEval, DefaultSurface) : t \in {c \in TrainSpace :
        /\ c.gradient_accumulation_steps = 1
        /\ c.viewer_enabled
        /\ ~c.quit_on_train_completion
        /\ c.use_grad_scaler
        /\ c.load_scheduler
        /\ c.model_keys = "plain"
        /\ c.world_size = 1
        /\ c.load_dir => c.prior_step >= 0}}

InitCkpt == InitWith(CkptConfigs)

SpecCkpt == InitCkpt /\ [][Next]_vars

\* the resuming configurations: every model naming, wrapped or not, with and
\* without a scaler, resumed from the checkpoint an earlier run left
ResumeConfigs ==
    {Config(t, DefaultLoad(t), DefaultEval, DefaultSurface) : t \in {c \in TrainSpace :
        /\ c.gradient_accumulation_steps = 1
        /\ c.steps_per_save = DefaultConfig.steps_per_save
        /\ c.save_only_latest_checkpoint
        /\ c.viewer_enabled
        /\ ~c.quit_on_train_completion
        /\ c.load_dir
        /\ c.prior_step >= 0}}

InitResume == InitWith(ResumeConfigs)

SpecResume == InitResume /\ [][Next]_vars

\* the load configurations: a directory, a step of it, a file or nothing to
\* load, and a checkpoint directory that holds none, one or several checkpoints
LoadConfigs ==
    {c \in {Config(t, l, DefaultEval, DefaultSurface) :
               t \in {x \in TrainSpace :
                        /\ x.max_num_iterations <= 1
                        /\ x.gradient_accumulation_steps = 1
                        /\ x.steps_per_save = DefaultConfig.steps_per_save
                        /\ x.save_only_latest_checkpoint
                        /\ x.viewer_enabled
                        /\ ~x.quit_on_train_completion
                        /\ x.use_grad_scaler
                        /\ x.load_scheduler
                        /\ x.model_keys = "plain"
                        /\ x.world_size = 1},
               l \in {x \in LoadSpace :
                        /\ x.prior_model_keys = "plain"
                        /\ x.prior_has_schedulers
                        /\ x.pipeline_class = DefaultConfig.pipeline_class}} :
        \A s \in c.prior_older : s < c.prior_step}

InitLoad == InitWith(LoadConfigs)

SpecLoad == InitLoad /\ [][Next]_vars

\* the restoring configurations: one iteration after a load from the directory
\* or from a file, or after none; every model naming now and in the checkpoint,
\* wrapped or not, through either pipeline class, with and without schedulers
\* in the checkpoint and with and without load_scheduler
RestoreConfigs ==
    {c \in {Config(t, l, DefaultEval, DefaultSurface) :
               t \in {x \in TrainSpace :
                        /\ x.max_num_iterations = 1
                        /\ x.gradient_accumulation_steps = 1
                        /\ x.steps_per_save = DefaultConfig.steps_per_save
                        /\ x.save_only_latest_checkpoint
                        /\ x.viewer_enabled
                        /\ ~x.quit_on_train_completion
                        /\ x.use_grad_scaler
                        /\ x.prior_step >= 0},
               l \in {x \in LoadSpace :
                        /\ x.load_step = DefaultConfig.load_step
                        /\ x.prior_older = DefaultConfig.prior_older}} :
        /\ c.load_checkpoint \in {-1, c.prior_step}
        /\ c.load_dir => c.load_checkpoint = -1}

InitRestore == InitWith(RestoreConfigs)

SpecRestore == InitRestore /\ [][Next]_vars

\* the evaluating configurations: with and without an evaluation dataset and
\* a telemetry backend, every combination of the three evaluation periods and
\* of the save period, from a fresh or a resumed start
EvalConfigs ==
    {Config(t, DefaultLoad(t), e, DefaultSurface) :
        t \in {c \in TrainSpace :
                 /\ c.max_num_iterations = MaxIters
                 /\ c.gradient_accumulation_steps = 1
                 /\ c.save_only_latest_checkpoint
                 /\ c.viewer_enabled
                 /\ ~c.quit_on_train_completion
                 /\ ~c.use_grad_scaler
                 /\ c.load_scheduler
                 /\ c.model_keys = "plain"
                 /\ c.world_size = 1
                 /\ c.load_dir = (c.prior_step >= 0)},
        e \in EvalSpace}

InitEval == InitWith(EvalConfigs)

SpecEval == InitEval /\ [][Next]_vars

\* the configurations of the fair runs: with a viewer, from a fresh start
FairConfigs ==
    {Config(t, DefaultLoad(t), DefaultEval, DefaultSurface) :
        t \in {c \in TrainSpace :
                 /\ c.gradient_accumulation_steps = 1
                 /\ c.save_only_latest_checkpoint
                 /\ c.viewer_enabled
                 /\ ~c.use_grad_scaler
                 /\ c.load_scheduler
                 /\ c.model_keys = "plain"
                 /\ c.world_size = 1
                 /\ ~c.load_dir
                 /\ c.prior_step = -1}}

InitFair == InitWith(FairConfigs)

\* the poll finding training_state other than "paused"
LeavePause == PauseCheck /\ pc' = "acquire"

\* a step of the poll taken while training_state is not "paused"
PollWhileTraining ==
    /\ training_state # "paused"
    /\ PauseCheck \/ PauseSleep

\* The trainer thread keeps running; the poll, which looks every 10 ms, is
\* not outrun for ever by a viewer that resumes and pauses again between two
\* looks; the lock, released by every holder, is obtained by the trainer; the
\* viewer ends every rendering and resumes every pause.
Fairness ==
    /\ WF_vars(TrainerStep)
    /\ SF_vars(PollWhileTraining)
    /\ SF_vars(LeavePause)
    /\ SF_vars(AcquireLock)
    /\ WF_vars(ViewerRelease)
    /\ WF_vars(Resume)

SpecFair == InitFair /\ [][Next]_vars /\ Fairness

\* The diagnosed configurations: a run from a fresh start past the second due
\* step of the diagnostic, without a ray bundle, with one whose output has
\* not the length of the cameras, and with one over every scene and box.
DiagConfigs ==
    {Config(t, DefaultLoad(t), DefaultEval, d) :
        t \in {[DefaultConfig EXCEPT !.max_num_iterations = DiagnosticPeriod + 1,
                                     !.use_grad_scaler = FALSE]},
        d \in {x \in SurfaceSpace :
                 (\/ ~x.ray_bundle_surface_detection
                  \/ x.num_image # SurfaceOutputLen
                  \/ x.diagnostic_period # DefaultConfig.diagnostic_period)
                     => /\ x.plane_a = DefaultConfig.plane_a
                        /\ x.plane_b = DefaultConfig.plane_b
                        /\ x.plane_d = DefaultConfig.plane_d
                        /\ x.box = DefaultConfig.box}}

InitDiag == InitWith(DiagConfigs)

SpecDiag == InitDiag /\ [][Next]_vars

\* The configurations where everything that runs the model runs: a viewer,
\* the three evaluations on every period, the diagnostic with and without a
\* ray bundle, from a fresh start past the second due step of the
\* diagnostic, with a number of accumulation steps that train_iteration
\* accepts and one it refuses.
ModeConfigs ==
    {Config(t, DefaultLoad(t), e, d) :
        t \in {[DefaultConfig EXCEPT !.max_num_iterations = DiagnosticPeriod + 1,
                                     !.use_grad_scaler = FALSE,
                                     !.gradient_accumulation_steps = k] : k \in 0..1},
        e \in EvalSpace,
        d \in {x \in SurfaceSpace :
                 /\ x.diagnostic_period = DefaultConfig.diagnostic_period
                 /\ x.plane_a = DefaultConfig.plane_a
                 /\ x.plane_b = DefaultConfig.plane_b
                 /\ x.plane_d = DefaultConfig.plane_d
                 /\ x.box = DefaultConfig.box}}

InitMode == InitWith(ModeConfigs)

SpecMode == InitMode /\ [][Next]_vars

\* ------------------------------------------------------------------ claims
IsPrefix(a, b) == Len(a) <= Len(b) /\ SubSeq(b, 1, Len(a)) = a

\* the positions between taking and releasing the train lock
LockedRegion ==
    {"pipeline_train", "before_cb", "zero_grad", "assert_accum", "accum",
     "scaler_update", "after_cb", "release"}

\* C1: from before the first before-iteration callback until after the last
\* after-iteration callback (gradient zeroing, every sub-step, the optimizer
\* step and the scheduler step included) the trainer holds the train lock, so
\* the viewer, which renders only while it holds the lock, never renders
\* inside an iteration.
C1_LockHeldThroughIteration ==
    /\ pc \in LockedRegion => train_lock = "trainer"
    /\ viewer = "rendering" => train_lock = "viewer" /\ pc \notin LockedRegion

C1_Witness ==
    /\ pc = "accum"
    /\ accum = 1
    /\ config.gradient_accumulation_steps = 2
    /\ Len(calls) = 2
    /\ train_lock = "trainer"
    /\ viewer = "idle"
    /\ config.viewer_enabled

\* C2: while training_state stays "paused" no call of train_iteration is made
\* (no step index is consumed).
C2_NoIterationWhilePaused ==
    [][(training_state = "paused" /\ training_state' = "paused") => calls' = calls]_vars

\* the events of train_iteration: what follows the before-iteration callbacks
IterationEvents == SubSeq(events, Len(Callbacks) + 1, Len(events))

\* C6: when train_iteration returns, the schedulers were stepped exactly once,
\* with the current step, unless the scale after the scaler's update is
\* strictly smaller than before it; then they were not stepped at all.
C6_SchedulerSkippedIffScaleDecreased ==
    pc = "after_cb" =>
        IF GetScale(grad_scaler) < scale
        THEN /\ CountOf(events, "scheduler_step") = 0
             /\ optimizers.schedulers = sched_entry
        ELSE /\ CountOf(events, "scheduler_step") = 1
             /\ events[Len(events)] = Ev("scheduler_step", step, 0)
             /\ optimizers.schedulers = [g \in Groups |-> sched_entry[g] + 1]

C6_Witness ==
    /\ pc = "after_cb"
    /\ GetScale(grad_scaler) < scale
    /\ Len(calls) = 2

\* C7: with gradient_accumulation_steps = K >= 1, an iteration that reached the
\* end of its optimizer step has zeroed the gradients once, then done K
\* sub-steps, each one batch fetch followed by one backward pass of the loss
\* divided by K, then one optimizer step, and nothing else.
C7_AccumulationOrder ==
    pc = "scaler_update" =>
        LET K == config.gradient_accumulation_steps
            e == IterationEvents
        IN  /\ K >= 1
            /\ Len(e) = 2 * K + 2
            /\ e[1].op = "zero_grad"
            /\ \A j \in 1..K :
                  /\ e[2 * j].op = "fetch"
                  /\ e[2 * j].x = e[2].x + (j - 1)
                  /\ e[2 * j + 1] = Ev("backward", step, K)
            /\ e[2 * K + 2].op = "optimizer_step"
            /\ Len(grads) = K
            /\ \A j \in 1..K : grads[j] = [batch |-> e[2 * j].x, div |-> K]

C7_Witness ==
    /\ pc = "scaler_update"
    /\ config.gradient_accumulation_steps = 2
    /\ Len(calls) = 2

\* C8: with gradient_accumulation_steps <= 0 no part of an iteration runs: no
\* before-iteration callback, no gradient zeroing, no batch fetch, no
\* optimizer step and no scheduler step.
C8_NothingRunsBeforeAbort ==
    config.gradient_accumulation_steps <= 0 =>
        /\ events = <<>>
        /\ calls = <<>>

\* C9: train_iteration is called with the steps _start_step, _start_step + 1,
\* ... in this order, each once, never more than max_num_iterations times, and
\* the loop is left after exactly max_num_iterations calls.
C9_IterationsInOrder ==
    /\ Len(calls) <= config.max_num_iterations
    /\ \A i \in DOMAIN calls : calls[i] = start_step + (i - 1)
    /\ pc = "final_save" => Len(calls) = config.max_num_iterations

C9_Witness ==
    /\ pc = "final_save"
    /\ Len(calls) = 2
    /\ start_step > 0

\* what Trainer.train does after the loop when it skips the idle wait, and
\* when it enters it
FinishReturned ==
    <<"save_checkpoint", "write_out_storage">> \o [i \in 1..Len(Callbacks) |-> "after_train"]

FinishIdle == Append(FinishReturned, "training_complete")

\* C10 as stated: after the loop the final checkpoint, the flush and the
\* after-train callbacks happen once each in this order, and train returns
\* only when quit_on_train_completion is set.
C10_ReturnsOnlyOnQuit ==
    /\ pc = "returned" => finish = FinishReturned /\ config.quit_on_train_completion
    /\ pc = "idle" => finish = FinishIdle

\* C10, amended: after the loop the final checkpoint, the flush and the
\* after-train callbacks happen once each in this order; then train enters the
\* viewer's idle wait, unless quit_on_train_completion is set or no viewer is
\* enabled, and returns in these two cases only.
C10_FinishOrder ==
    /\ IsPrefix(finish, FinishIdle)
    /\ finish # <<>> => checkpoint_dir[FileName(step)].complete
    /\ pc = "returned" =>
          /\ finish = FinishReturned
          /\ config.quit_on_train_completion \/ ~config.viewer_enabled
    /\ pc = "idle" =>
          /\ finish = FinishIdle
          /\ ~config.quit_on_train_completion /\ config.viewer_enabled

C10_Witness ==
    /\ pc = "returned"
    /\ ~config.quit_on_train_completion
    /\ ~config.viewer_enabled
    /\ Len(calls) = 2

\* C3 (latest-only retention): once the checkpoint directory holds a complete
\* checkpoint it holds one at every later instant, also while a later
\* checkpoint is being written and after a write was interrupted.
C3_CompleteCheckpointSurvives ==
    [][(config.save_only_latest_checkpoint /\ CompleteFiles # {})
          => CompleteFiles' # {}]_vars

\* C4 (latest-only retention): after every save_checkpoint call that returned,
\* and until the next one starts to write, the checkpoint directory holds
\* exactly one file: the complete checkpoint named for the step of that call.
C4_OnlyLatestRemains ==
    (/\ config.save_only_latest_checkpoint
     /\ saves # <<>>
     /\ pc \notin {"save_write", "save_prune", "interrupted"})
    => /\ DOMAIN checkpoint_dir = {FileName(saves[Len(saves)])}
       /\ checkpoint_dir[FileName(saves[Len(saves)])].complete
       /\ checkpoint_dir[FileName(saves[Len(saves)])].state.step = saves[Len(saves)]

C4_Witness ==
    /\ config.save_only_latest_checkpoint
    /\ Len(saves) = 2
    /\ saves[1] # saves[2]
    /\ config.prior_step >= 0
    /\ pc = "flush"

\* C5: a trainer that loaded a checkpoint and ran with max_num_iterations = 0
\* holds, and has written in its final checkpoint, the model, optimizer and
\* scaler state of the checkpoint it loaded.
C5_ResumeRoundTrip ==
    (loaded # <<>> /\ config.max_num_iterations = 0 /\ finish # <<>>) =>
        LET written == checkpoint_dir[FileName(step)].state
        IN  /\ PipelineStateDict = loaded[1].pipeline
            /\ optimizers.optimizers = loaded[1].optimizers
            /\ ScalerStateDict(grad_scaler) = loaded[1].scalers
            /\ written.pipeline = loaded[1].pipeline
            /\ written.optimizers = loaded[1].optimizers
            /\ written.scalers = loaded[1].scalers

\* C11: once the loop is over and train has returned or sits in the idle wait,
\* training_state is "completed", with or without a viewer and whatever
\* quit_on_train_completion says; and it is "completed" only after the loop.
C11_CompletedAtLoopExit ==
    /\ pc \in {"returned", "idle"} => training_state = "completed"
    /\ training_state = "completed" => pc \in {"training_complete", "idle", "viewer_error"}

\* C12: no failure of the viewer's update_scene or training_complete leaves
\* Trainer.train: every failure is followed by the sleep and the logged
\* message, and after a failed update_scene the loop goes on with the logging
\* phase of the same step.
C12_ViewerFailuresCaught ==
    /\ pc # "viewer_error"
    /\ (pc = "log" /\ ViewerEnabled /\ events[Len(events)] = Ev("update_scene", step, 0))
          => /\ Len(console) >= 2
             /\ SubSeq(console, Len(console) - 1, Len(console)) = ViewerFailed(step)

\* the steps whose iteration has passed the point of the rays-per-second event
PastRaysPerSec ==
    IF \/ pc \in {"assert_accum", "accum", "scaler_update", "after_cb", "release",
                  "rays_per_sec", "assert_failed"}
       \/ pc = "callback_error" /\ CountOf(events, "zero_grad") > 0
    THEN SubSeq(calls, 1, Len(calls) - 1)
    ELSE calls

\* C13: the train-rays-per-second events are, in order, one for every step
\* greater than 1 whose iteration was executed, and none for step 0 or 1.
C13_RaysPerSecFromStepTwo ==
    /\ \A i \in DOMAIN writer : writer[i].op = "rays_per_sec" /\ writer[i].step > 1
    /\ [i \in DOMAIN writer |-> writer[i].step]
          = SelectSeq(PastRaysPerSec, LAMBDA s : s > 1)

C13_Witness ==
    /\ Len(writer) = 1
    /\ writer[1].step = 2
    /\ calls = <<1, 2>>
    /\ pc = "final_save"

\* C14: whatever the start step, no train-rays-per-second event is emitted by
\* the first or the second iteration the run executes.
C14_NotInFirstTwoIterations ==
    \A i \in DOMAIN writer : writer[i].x > 2

\* the state of a freshly built trainer: nothing trained, nothing restored
FreshState ==
    /\ start_step = 0
    /\ pipeline.model = [k \in ModelKeys |-> 0]
    /\ pipeline.datamanager = 0
    /\ optimizers = [optimizers |-> [g \in Groups |-> 0],
                     schedulers |-> [g \in Groups |-> 0]]
    /\ grad_scaler = FreshScaler
    /\ loaded = <<>>

\* C15: with load_dir set, a load without load_step reads the checkpoint of
\* the largest step among the files of the directory, and a load with
\* load_step reads the checkpoint of exactly that step, or none when the
\* directory has no file of that step.
C15_ResolvesLatestOrGivenStep ==
    (config.load_dir /\ pc # "setup") =>
        /\ (config.load_step < 0 /\ PriorSteps # {}) =>
              /\ loaded # <<>>
              /\ loaded[1].step \in PriorSteps
              /\ \A s \in PriorSteps : s <= loaded[1].step
        /\ (config.load_step >= 0 /\ config.load_step \in PriorSteps) =>
              /\ loaded # <<>>
              /\ loaded[1].step = config.load_step
        /\ (config.load_step >= 0 /\ config.load_step \notin PriorSteps) =>
              loaded = <<>>

C15_Witness ==
    /\ config.load_dir
    /\ config.load_step < 0
    /\ PriorSteps = {0, 1}
    /\ loaded # <<>>
    /\ loaded[1].step = 1
    /\ pc = "train"

\* the resolved checkpoint does not exist: an absent explicit file, an absent
\* step of the directory, or a directory without a checkpoint
ResolvedMissing ==
    \/ config.load_dir /\ config.load_step < 0 /\ PriorSteps = {}
    \/ config.load_dir /\ config.load_step >= 0 /\ config.load_step \notin PriorSteps
    \/ ~config.load_dir /\ config.load_checkpoint >= 0
          /\ config.load_checkpoint \notin PriorSteps

\* C16: when the resolved checkpoint does not exist, _load_checkpoint fails
\* with the checkpoint-does-not-exist error, no iteration runs, and
\* _start_step and the pipeline, optimizer, scheduler and scaler state are as
\* freshly built.
C16_MissingCheckpointFails ==
    (ResolvedMissing /\ pc # "setup") =>
        /\ pc = "load_failed"
        /\ FreshState
        /\ calls = <<>>
        /\ events = <<>>

\* C17: with neither load_dir nor load_checkpoint configured, _load_checkpoint
\* raises nothing and leaves the trainer as freshly built, whatever load_step
\* says and whatever the checkpoint directory holds; the first iteration is
\* step 0.
C17_NoLoadSourceStartsFresh ==
    (~config.load_dir /\ config.load_checkpoint < 0 /\ pc # "setup") =>
        /\ pc \notin {"load_failed", "index_error", "load_error"}
        /\ start_step = 0
        /\ loaded = <<>>
        /\ pc = "train" => FreshState
        /\ calls # <<>> => calls[1] = 0

C17_Witness ==
    /\ ~config.load_dir
    /\ config.load_checkpoint < 0
    /\ config.load_step >= 0
    /\ config.load_step \in PriorSteps
    /\ calls = <<0>>

\* C18: after a successful load, from the directory or from a file,
\* _start_step is the checkpoint's step + 1, the pipeline state, every
\* optimizer state and the scaler state are the checkpoint's, and the
\* schedulers are the checkpoint's if it has a schedulers entry and
\* load_scheduler is set, and freshly initialized otherwise.
C18_RestoresFromCheckpoint ==
    (loaded # <<>> /\ pc = "train") =>
        /\ start_step = loaded[1].step + 1
        /\ PipelineStateDict = loaded[1].pipeline
        /\ optimizers.optimizers = loaded[1].optimizers
        /\ ScalerStateDict(grad_scaler) = loaded[1].scalers
        /\ optimizers.schedulers =
              IF "schedulers" \in DOMAIN loaded[1] /\ config.load_scheduler
              THEN loaded[1].schedulers
              ELSE [g \in Groups |-> 0]

\* the strict restoration of the model state of the loaded checkpoint fails:
\* the names load_pipeline and load_state_dict hand to the model are not
\* the model's
StrictRestoreFails ==
    /\ loaded # <<>>
    /\ DOMAIN ModelState(StripModuleKeys(loaded[1].pipeline)) # ModelKeys

\* C19: load_pipeline passes no strict, so when the strict restoration of the
\* model state fails the failure propagates and setup ends with it; it does
\* not go on to train with a model restored under relaxed matching.
C19_StrictFailurePropagates ==
    (StrictRestoreFails /\ pc # "setup") => pc = "load_error"

\* C20: with world_size > 1 every batch fetch is immediately preceded by
\* set_epoch with the current step, at every step and through either pipeline
\* class.
C20_SetEpochBeforeFetch ==
    config.world_size > 1 =>
        \A i \in DOMAIN events :
            events[i].op = "fetch" =>
                /\ i > 1
                /\ events[i - 1] = Ev("set_epoch", step, step)

\* the positions of the pause poll
PauseWait == {"pause_check", "pause_sleep"}

\* a step taken while the trainer is in the pause poll
PauseWaitStep ==
    /\ train_lock # "trainer"
    /\ viewer = "idle" => train_lock = "free"
    /\ calls' = calls /\ events' = events /\ step' = step
    /\ pc' \notin PauseWait =>
          /\ pc = "pause_check"
          /\ pc' = "acquire"
          /\ training_state # "paused"

\* C22: in the pause poll the trainer does not hold the train lock, so the
\* lock is free whenever the viewer is not rendering, and no step taken there
\* runs any part of an iteration; the loop leaves the poll only by a check
\* that found training_state other than "paused".
C22_PauseWaitHoldsNoLock == [][(pc \in PauseWait) => PauseWaitStep]_vars

C22_Witness ==
    /\ pc = "pause_sleep"
    /\ training_state = "paused"
    /\ train_lock = "viewer"
    /\ viewer = "rendering"
    /\ Len(calls) = 1

\* C27: once setup has built it, the callback list is the data manager's
\* callbacks followed by the model's, at every later instant; an iteration that
\* reached the release of the lock has run every callback of the list, in
\* order and with the current step, before train_iteration, and every callback
\* again, in the same order and with the same step, after it, and no callback
\* in between; the after-train callbacks run only after the loop has ended.
C27_CallbacksInOrder ==
    /\ pc \notin {"setup", "index_error", "load_failed", "load_error"}
          => callbacks = <<"datamanager", "model">>
    /\ pc = "release" =>
          LET n == Len(callbacks)
          IN  /\ Len(events) >= 2 * n + 1
              /\ SubSeq(events, 1, n) = [i \in 1..n |-> Ev("before_iter", step, i)]
              /\ events[n + 1] = Ev("zero_grad", step, 0)
              /\ SubSeq(events, Len(events) - n + 1, Len(events))
                    = [i \in 1..n |-> Ev("after_iter", step, i)]
              /\ CountOf(events, "before_iter") = n
              /\ CountOf(events, "after_iter") = n
    /\ (\E i \in DOMAIN finish : finish[i] = "after_train") =>
          /\ pc \in {"complete", "training_complete", "idle", "returned", "viewer_error"}
          /\ Len(calls) = config.max_num_iterations
          /\ Cardinality({i \in DOMAIN finish : finish[i] = "after_train"}) = Len(callbacks)

C27_Witness ==
    /\ pc = "idle"
    /\ Len(calls) = 2
    /\ Len(events) > 2 * Len(callbacks)
    /\ callbacks = <<"datamanager", "model">>
    /\ finish[3] = "after_train"

\* the positions inside save_checkpoint
Saving == {"save_open", "save_write", "save_prune"}

\* C28: every checkpoint written records the step of an iteration this run
\* has executed to its end; the final one records the last executed step; and
\* no checkpoint of a run resumed from a checkpoint of step S records a step
\* below S, also when the run executes no iteration.
C28_CheckpointStepExecuted ==
    /\ \A i \in DOMAIN saves :
          /\ \E j \in DOMAIN calls : calls[j] = saves[i]
          /\ FileName(saves[i]) \in DOMAIN checkpoint_dir
                => checkpoint_dir[FileName(saves[i])].state.step = saves[i]
          /\ loaded # <<>> => saves[i] >= loaded[1].step
    /\ pc \in Saving =>
          /\ calls # <<>> => step = calls[Len(calls)]
          /\ loaded # <<>> => step >= loaded[1].step

\* C29: a checkpoint for step s is written only when iteration s is over: its
\* optimizer step applied, its after-iteration callbacks run and the lock
\* released; a run resumed from a checkpoint of step s executes s + 1 first
\* and then consecutive steps, and the checkpoint it leaves last is that of
\* its last executed step, so a chain of resumed runs neither repeats nor
\* skips a step.
C29_SavedAfterIterationResumedAtNext ==
    /\ pc \in Saving =>
          /\ calls # <<>>
          /\ calls[Len(calls)] = step
          /\ CountOf(events, "optimizer_step") = 1
          /\ CountOf(events, "after_iter") = Len(callbacks)
          /\ train_lock # "trainer"
    /\ (loaded # <<>> /\ calls # <<>>) => calls[1] = loaded[1].step + 1
    /\ \A i \in 1..(Len(calls) - 1) : calls[i + 1] = calls[i] + 1
    /\ (finish # <<>> /\ calls # <<>>) =>
          /\ saves[Len(saves)] = calls[Len(calls)]
          /\ checkpoint_dir[FileName(calls[Len(calls)])].state.step = calls[Len(calls)]

\* the batches the current iteration has fetched, in order
Fetched ==
    LET f == SelectSeq(events, LAMBDA e : e.op = "fetch")
    IN  [i \in DOMAIN f |-> f[i].x]

RECURSIVE SumGradients(_)
SumGradients(batches) ==
    IF Len(batches) = 0 THEN 0
    ELSE SumGradients(SubSeq(batches, 1, Len(batches) - 1))
           + BatchGradient(batches[Len(batches)])

\* the gradient of one step over the concatenation of the batches: the mean
\* of the unit batches' gradients
ConcatGradient(batches) == [num |-> SumGradients(batches), den |-> Len(batches)]

\* C26: for a loss linear in batch composition, the gradient the optimizer
\* step of an iteration with gradient_accumulation_steps = K is applied to is
\* the gradient of a single step over the concatenation of the K unit batches
\* the iteration fetched: the sum of the K sub-steps' gradients, each divided
\* by K.
C26_AccumulatedIsConcatGradient ==
    pc = "scaler_update" =>
        /\ Len(Fetched) = config.gradient_accumulation_steps
        /\ \A i \in 1..(Len(Fetched) - 1) : Fetched[i + 1] # Fetched[i]
        /\ RatEq(Accumulated(grads), ConcatGradient(Fetched))

C26_Witness ==
    /\ pc = "scaler_update"
    /\ config.gradient_accumulation_steps = 2
    /\ Fetched = <<2, 3>>
    /\ Len(grads) = 2

Ended ==
    {"returned", "index_error", "load_failed", "load_error", "assert_failed",
     "viewer_error", "interrupted", "false_length", "callback_error"}

\* the positions where the trainer waits for another thread
Waits == PauseWait \cup {"acquire", "idle"}

C30_DifferenceFromPreviousInvocation ==
    \A k \in 2..Len(reports) :
        /\ reports[k].t_temp = reports[k].plane.a * 3 + reports[k].plane.b * 3
                                 + reports[k].plane.d
        /\ reports[k].diff = Abs(reports[k].t_temp - reports[k - 1].t_temp)

\* what the step of the diagnostic leaves alone
DiagnosticFrame ==
    /\ grads' = grads
    /\ optimizers' = optimizers
    /\ grad_scaler' = grad_scaler
    /\ pipeline'.model = pipeline.model
    /\ pipeline'.datamanager = pipeline.datamanager
    /\ step' = step /\ iter' = iter /\ start_step' = start_step
    /\ ~config.ray_bundle_surface_detection =>
          /\ pc' = "eval"
          /\ UNCHANGED <<config, ret, step, iter, start_step, training_state,
                         train_lock, viewer, accum, scale, pipeline, grads,
                         optimizers, grad_scaler, checkpoint_dir, loaded, calls,
                         events, sched_entry, finish, saves, writer, console,
                         callbacks, plane_t, reports>>

\* C21: the step of the diagnostic changes neither the gradients, the
\* optimizers, the schedulers, the scaler, the model parameters nor the step
\* counter; without a surface-detection ray bundle it changes nothing at all
\* and raises nothing: the loop goes on to the evaluation as if there were no
\* diagnostic.
C21_DiagnosticReadOnly ==
    [][(pc \in {"diagnostic", "surface_detection"} /\ pc' # pc) => DiagnosticFrame]_vars

C21_Witness ==
    /\ pc = "eval"
    /\ config.ray_bundle_surface_detection
    /\ Len(reports) = 2
    /\ reports[2].step = DiagnosticPeriod
    /\ grads # <<>>
    /\ pipeline.model # [k \in ModelKeys |-> 0]

\* the value of a*x + b*y + c*z + d at a vertex
PlaneAt(p, v) == p.a * v[1] + p.b * v[2] + p.c * v[3] + p.d

\* the edges whose two ends are not on one side of the plane: the plane
\* passes between them or through one of them, and does not hold the edge
Crossed(p, vertices) ==
    SelectSeq(Edges, LAMBDA e :
        /\ PlaneAt(p, vertices[e.i]) # PlaneAt(p, vertices[e.j])
        /\ PlaneAt(p, vertices[e.i]) * PlaneAt(p, vertices[e.j]) <= 0)

\* the point q is where the plane meets the segment from vertex vi to vj
MeetsAt(p, vi, vj, q) ==
    LET fi == PlaneAt(p, vi)
        fj == PlaneAt(p, vj)
    IN  \A k \in 1..3 :
            q.num[k] * (fi - fj) = q.den * (vi[k] * (fi - fj) + fi * (vj[k] - vi[k]))

\* C25: the points derive_nsa returns are, in the order of the twelve edges
\* (four along x, four along y, four along z), the point where the plane
\* meets the edge for exactly the edges whose solved t is within [0, 1], the
\* edges the plane meets between their two ends, these included; they are
\* at most twelve, and none when all eight vertices lie strictly on one side
\* of the plane.
C25_IntersectionsOfTwelveEdges ==
    pc = "eval" => \A n \in DOMAIN reports :
        LET p        == reports[n].plane
            points   == reports[n].bbox_intersections
            vertices == Vertices(Boxes[config.box])
            crossed  == Crossed(p, vertices)
        IN  /\ Len(Edges) = 12
            /\ Len(points) <= 12
            /\ Len(points) = Len(crossed)
            /\ \A m \in DOMAIN points :
                  /\ points[m].den # 0
                  /\ MeetsAt(p, vertices[crossed[m].i], vertices[crossed[m].j], points[m])
            /\ ((\A i \in 0..7 : PlaneAt(p, vertices[i]) > 0)
                  \/ (\A i \in 0..7 : PlaneAt(p, vertices[i]) < 0))
                    => points = <<>>

C25_Witness ==
    /\ pc = "eval"
    /\ Len(reports) = 1
    /\ config.box = "tilted"
    /\ Len(reports[1].bbox_intersections) = 5
    /\ \E m \in 1..5 : reports[1].bbox_intersections[m].den \notin {-1, 1}

\* C31: whatever the number of the diagnostic's cameras, the diagnostic gets
\* past the check of the output's length, and what it back-projects for
\* camera i, the element i of what get_surface_detection returned, is the
\* model's depth output for the rays of camera i.
C31_DepthPerCamera ==
    /\ pc # "false_length"
    /\ \A k \in DOMAIN reports : \A i \in 1..config.num_image :
          reports[k].depths[i] = [output |-> "depth", cameras |-> {i}]

\* C32: the diagnostic runs at step s if and only if a surface-detection ray
\* bundle is configured and s is a multiple of the period the configuration
\* gives, whose default is the period of the source.
C32_RunsOnConfiguredPeriod ==
    [][(pc = "diagnostic" /\ pc' # pc) =>
          /\ DefaultConfig.diagnostic_period = DiagnosticPeriod
          /\ (pc' = "surface_detection") <=>
                (/\ config.ray_bundle_surface_detection
                 /\ step % config.diagnostic_period = 0)]_vars

\* C33: the trainer holds the train lock nowhere outside the locked region:
\* not where the region was left by an exception of a callback or of
\* train_iteration, not while it calls the viewer's update_scene or
\* training_complete, runs eval_iteration or the diagnostic, or writes a
\* checkpoint; so where it calls into the viewer the lock is free or held by
\* a rendering that can end and release it.
C33_LockReleasedOnEveryExit ==
    /\ train_lock = "trainer" => pc \in LockedRegion
    /\ pc \in {"update_viewer", "training_complete"} =>
          train_lock = "free" \/ ENABLED ViewerRelease

C33_Witness ==
    /\ pc = "callback_error"
    /\ train_lock = "free"
    /\ step = DiagnosticPeriod
    /\ CountOf(events, "after_iter") = 1
    /\ CountOf(events, "optimizer_step") = 1
    /\ saves # <<>>
    /\ \E i \in DOMAIN writer : writer[i].op = "test_rays_per_sec"
    /\ reports # <<>>

\* the positions inside an evaluation routine of the pipeline, between its
\* entry and its return
EvalRunning == EvalRoutines \cup {"surface_detection"}

\* the positions inside train_iteration
InTrainIteration == {"zero_grad", "assert_accum", "accum", "scaler_update"}

\* C34: the pipeline is in training mode at every call of train_iteration
\* and all through it; it is in evaluation mode exactly inside an evaluation
\* routine of the pipeline (get_eval_loss_dict, get_surface_detection,
\* get_eval_image_metrics_and_images, get_average_eval_image_metrics), which
\* switches on entry and back on return; and the step that starts an
\* iteration sets training mode.
C34_TrainModeAtTrainIteration ==
    /\ pc \in InTrainIteration => pipeline.mode = "train"
    /\ pc \in EvalRunning <=> pipeline.mode = "eval"
    /\ pc \notin EvalRunning <=> pipeline.mode = "train"
    /\ pc = "before_cb" => pipeline.mode = "train"

C34_Witness ==
    /\ pc = "zero_grad"
    /\ pipeline.mode = "train"
    /\ calls = <<0, 1>>
    /\ step = DiagnosticPeriod
    /\ Len(reports) = 1
    /\ Cardinality({i \in DOMAIN writer : writer[i].op = "test_rays_per_sec"}) = 1
    /\ config.steps_per_eval_all_images = 1

\* a step of the trainer that switches the mode of the pipeline or runs a
\* forward pass of the model: self.pipeline.train(), a sub-step of
\* train_iteration, the entry and the return of an evaluation routine
ModelUsed ==
    \/ pipeline'.mode # pipeline.mode
    \/ pc = "pipeline_train" /\ pc' # pc
    \/ pc = "accum" /\ accum' # accum
    \/ pc \in EvalRunning /\ pc' # pc

\* C35: every switch of the pipeline's mode and every forward pass made by
\* Trainer.train, those of eval_iteration and of the diagnostic included,
\* happens with the train lock held by the trainer, and so never while the
\* viewer holds it.
C35_ModelUsedUnderLock ==
    [][ModelUsed => (train_lock = "trainer" /\ viewer # "rendering")]_vars

\* steps over the widths a file name holds: one digit, the first of two and
\* of three digits, all the digits different, and the largest that fits
NameSteps == {0, 9, 10, 99, 100, 123456789, Pow10(NameWidth) - 1}

\* C36: where a save_checkpoint call returns to, a load from the directory
\* without load_step resolves to a complete checkpoint of the directory, that
\* of the largest step saved there, which in latest-only mode is the step of
\* the call, and sets _start_step to that step + 1; the step parsed from a
\* file name and the file name derived from a step are inverse to each other
\* on the files of the directory and on every step the name holds.
C36_LoadResolvesLatestSaved ==
    (saves # <<>> /\ pc \in {"flush", "final_flush"}) =>
        LET dir       == checkpoint_dir
            load_step == LatestStep(dir)
            load_path == FileName(load_step)
        IN  /\ load_path \in DOMAIN dir
            /\ dir[load_path].complete
            /\ dir[load_path].state.step = load_step
            /\ \A n \in DOMAIN dir : dir[n].state.step <= load_step
            /\ \A i \in DOMAIN saves :
                  FileName(saves[i]) \in DOMAIN dir => saves[i] <= load_step
            /\ config.save_only_latest_checkpoint => load_step = saves[Len(saves)]
            /\ \A n \in DOMAIN dir : FileName(FileStep(n)) = n
            /\ \A s \in NameSteps : FileStep(FileName(s)) = s
            /\ \A s1, s2 \in NameSteps : FileName(s1) = FileName(s2) => s1 = s2

C36_Witness ==
    /\ ~config.save_only_latest_checkpoint
    /\ saves = <<1, 2>>
    /\ DOMAIN checkpoint_dir = {FileName(0), FileName(1), FileName(2)}
    /\ LatestStep(checkpoint_dir) = 2
    /\ checkpoint_dir[FileName(2)].complete
    /\ pc = "flush"

\* C37: with load_dir and load_checkpoint both configured, what setup loads
\* is what load_dir alone resolves to: the checkpoint of load_step, or of the
\* largest step of the directory without one; it fails only as a load from
\* the directory fails, whether or not the file load_checkpoint names
\* exists; and setup loads one checkpoint, never two.
C37_LoadDirTakesPrecedence ==
    (config.load_dir /\ config.load_checkpoint >= 0 /\ pc # "setup") =>
        /\ Len(loaded) <= 1
        /\ IF config.load_step < 0 /\ PriorSteps = {}
           THEN pc = "index_error" /\ loaded = <<>>
           ELSE LET s == IF config.load_step < 0 THEN SetMax(PriorSteps)
                                                 ELSE config.load_step
                IN  IF s \in PriorSteps
                    THEN /\ loaded = <<PriorState(s)>>
                         /\ start_step = s + 1
                         /\ pc \notin {"load_failed", "index_error", "load_error"}
                    ELSE /\ pc = "load_failed"
                         /\ loaded = <<>>

C37_Witness ==
    /\ config.load_dir
    /\ config.load_step < 0
    /\ config.load_checkpoint = 0
    /\ PriorSteps = {1}
    /\ loaded = <<PriorState(1)>>
    /\ start_step = 2
    /\ pc = "train"

\* C38: for a checkpoint saved from the model that loads it, wrapped by the
\* distributed wrapper (names under _model.module.) or not (names under
\* _model.), the names load_pipeline and load_state_dict hand to the model
\* are exactly the model's own parameter names, also when an attribute of
\* the model itself is called module.
C38_KeyNormalizationInverse ==
    (loaded # <<>> /\ config.prior_model_keys = config.model_keys) =>
        /\ DOMAIN loaded[1].pipeline = {ModelPrefix \o k : k \in ModelKeys} \cup {DmKey}
        /\ DOMAIN ModelState(StripModuleKeys(loaded[1].pipeline)) = ModelKeys
====
